---- MODULE Spec2Model ----
(***************************************************************************)
(* A model of wmpl's GuralTrajectory kinematics pipeline                   *)
(* (src/wmpl/Trajectory/GuralTrajectory.py): the object built by           *)
(* __init__, filled by infillTrajectory and solved by run(), which reads   *)
(* the solver outputs and calls calcVelocity, calcLag and calcAverages.    *)
(*                                                                         *)
(* Numbers.  Times and lengths are exact integers (one unit of time, one   *)
(* unit of length).  A time difference is a record [s, e] standing for     *)
(* s + e*eps, eps being np.finfo(np.float64).eps, so that the replacement  *)
(* of a zero difference by eps is visible.  A quotient is a record         *)
(* [kind, num, den]: kind "num" is num/den, kind "nan" and "inf" are what  *)
(* numpy's float64 division returns for 0/0 and x/0 (a warning, never an   *)
(* exception).  ECI points are integer 3-vectors lying on one radiant line *)
(* chosen so that every magnitude the code takes is an exact integer.      *)
(***************************************************************************)
EXTENDS Integers, Sequences, FiniteSets, TLC

\* self: the GuralTrajectory object; traj: the solver's structure; geom: the
\* points the projection returned; files: the file system, a function from
\* paths to pickled objects; milig: the MILIG input file and the state of its
\* reader; loaded: what loadPickle returned
VARIABLES self, traj, geom, files, milig, loaded

vars == <<self, traj, geom, files, milig, loaded>>

(***************************************************************************)
(* Bounds of the model.                                                    *)
(***************************************************************************)
MaxMeas == 2

\* values of the constructor argument maxcameras
CameraCounts == {1, 2}

\* measurement times relative to jdt_ref, as handed to infillTrajectory
TimeValues == {0, 1}

\* timing offsets the solver may return per station
OffsetValues == {-1, 0}

\* velocity-model identifiers handed to the constructor: <<velmodel, 'fha' given>>
VelModels == {<<0, FALSE>>, <<0, TRUE>>, <<1, FALSE>>, <<1, TRUE>>}

\* points of the radiant line P + s*d, P = (3,0,0), d = (0,0,1), s in {-4,0,4}:
\* what findClosestPoints may return as the point on the radiant line
CpaPoints == {<<3, 0, -4>>, <<3, 0, 0>>, <<3, 0, 4>>}

\* begin velocities (km/s) the solver may return
SolverVbegin == {2}

\* the default of the constructor argument meastype
DefaultMeastype == 4

\* the return status of MeteorTrajectory: 0 for success
SolverStatus == {0}

(***************************************************************************)
(* Arithmetic helpers.                                                     *)
(***************************************************************************)
SeqsUpTo(S, n) == UNION {[1..m -> S] : m \in 0..n}

Abs(x) == IF x < 0 THEN -x ELSE x

\* exact square root; the points of the model keep every argument a square
ISqrt(n) == CHOOSE r \in 0..n : r * r = n

\* wmpl.Utils.Math.vectMag: the Euclidean norm
vectMag(v) == ISqrt(v[1] * v[1] + v[2] * v[2] + v[3] * v[3])

VSub(a, b) == <<a[1] - b[1], a[2] - b[2], a[3] - b[3]>>

\* a rational number num/den
Rat(n, d) == [num |-> n, den |-> d]

RECURSIVE GCD(_, _)
GCD(a, b) == IF b = 0 THEN a ELSE GCD(b, a % b)

\* num/den in lowest terms, den > 0
RatN(n, d) == IF n = 0 THEN Rat(0, 1) ELSE Rat(n \div GCD(Abs(n), d), d \div GCD(Abs(n), d))

\* a float time difference s + e*eps
TVal(s, e) == [s |-> s, e |-> e]

TIsZero(t) == t.s = 0 /\ t.e = 0

\* np.finfo(np.float64).eps
MachineEps == TVal(0, 1)

\* numpy float64 division num/den of a length by a time difference
Divide(num, den) ==
    IF TIsZero(den)
    THEN [kind |-> IF num = 0 THEN "nan" ELSE "inf", num |-> num, den |-> den]
    ELSE [kind |-> "num", num |-> num, den |-> den]

RECURSIVE Flatten(_)
Flatten(ss) == IF ss = <<>> THEN <<>> ELSE Head(ss) \o Flatten(Tail(ss))

(***************************************************************************)
(* Angles.  An angle is a record [q, f] standing for the float64 number    *)
(* q*(np.pi/2.0) + f*2^-52.  np.pi/2.0 lies in [1, 2), where float64       *)
(* numbers are 2^-52 apart, and is a multiple of 8*2^-52 (its bits are     *)
(* 0x3FF921FB54442D18); np.pi and 2*np.pi are exactly 2 and 4 times it.    *)
(* For |q| <= 5 and small f the floats around q*(np.pi/2.0) are therefore  *)
(* the [q, f] with f a multiple of UlpAt(q), and the float of even         *)
(* mantissa among two neighbours is the one with f/UlpAt(q) even.          *)
(***************************************************************************)
Ang(q, f) == [q |-> q, f |-> f]

\* np.pi/2.0, np.pi and 2*np.pi
HalfPi == Ang(1, 0)

Pi == Ang(2, 0)

TwoPi == Ang(4, 0)

\* the spacing of float64, in units of 2^-52, in the binade of q*(np.pi/2.0):
\* [1, 2) for |q| = 1, [2, 4) for |q| = 2, [4, 8) for |q| = 3, 4, 5; for q = 0
\* every small multiple of 2^-52 is a float
UlpAt(q) == IF Abs(q) <= 1 THEN 1 ELSE IF Abs(q) = 2 THEN 2 ELSE 4

\* the float64 nearest to the real number a, ties to the even mantissa
FRound(a) ==
    LET g  == UlpAt(a.q)
        r  == a.f % g
        lo == a.f - r
    IN  IF 2 * r < g THEN Ang(a.q, lo)
        ELSE IF 2 * r > g THEN Ang(a.q, lo + g)
        ELSE IF (lo \div g) % 2 = 0 THEN Ang(a.q, lo) ELSE Ang(a.q, lo + g)

\* float64 a + b and a - b
FAdd(a, b) == FRound(Ang(a.q + b.q, a.f + b.f))

FSub(a, b) == FRound(Ang(a.q - b.q, a.f - b.f))

\* -1, 0 or 1 as a is negative, zero or positive
AngSign(a) ==
    IF a.q # 0 THEN (IF a.q > 0 THEN 1 ELSE -1)
    ELSE IF a.f > 0 THEN 1 ELSE IF a.f < 0 THEN -1 ELSE 0

\* C's fmod(a, 2*np.pi) for |a| < 4*np.pi: exact, with the sign of a
Fmod(a) ==
    IF AngSign(Ang(a.q - 4, a.f)) >= 0 THEN Ang(a.q - 4, a.f)
    ELSE IF AngSign(Ang(a.q + 4, a.f)) <= 0 THEN Ang(a.q + 4, a.f)
    ELSE a

\* (C20's mutant: the remainder keeps the sign of the dividend)
RemainderTruncated(a) == Fmod(a)

\* numpy's a % (2*np.pi): mod = fmod(a, b), and mod += b (a float64 addition)
\* when mod is non-zero and of the other sign than b
Remainder(a) ==
    IF AngSign(Fmod(a)) < 0 THEN FRound(Ang(Fmod(a).q + 4, Fmod(a).f)) ELSE Fmod(a)

(***************************************************************************)
(* calcVelocity: the measurements as azimuth east of north and elevation.  *)
(***************************************************************************)
\* the if/elif chain over self.meastype for one measurement; no branch binds
\* azim_data and elev_data for any other meastype.  raDec2AltAz_vect
\* (wmpl.Utils.TrajConversions) is not interpreted.
NormalizeMeas(meastype, meas1, meas2) ==
    IF meastype = 1
    THEN [bound |-> TRUE,
          azim |-> [fn |-> "raDec2AltAz_vect", out |-> "azim", ra |-> meas1, dec |-> meas2],
          elev |-> [fn |-> "raDec2AltAz_vect", out |-> "elev", ra |-> meas1, dec |-> meas2]]
    ELSE IF meastype = 2
    THEN [bound |-> TRUE, azim |-> meas1, elev |-> meas2]
    ELSE IF meastype = 3
    THEN [bound |-> TRUE, azim |-> Remainder(FAdd(meas1, Pi)), elev |-> FSub(HalfPi, meas2)]
    ELSE IF meastype = 4
    THEN [bound |-> TRUE, azim |-> Remainder(FSub(HalfPi, meas1)), elev |-> FSub(HalfPi, meas2)]
    ELSE [bound |-> FALSE, azim |-> meas1, elev |-> meas2]

\* (C12's mutant: names that no branch bound are used all the same)
IsUnboundNever(meastype) == FALSE

\* altAz2RADec_vect(azim_data, elev_data, ...): the names are unbound in the
\* first pass of the loop when no branch was taken (UnboundLocalError)
IsUnbound(meastype) == ~NormalizeMeas(meastype, Ang(0, 0), Ang(0, 0)).bound

\* azim_data, elev_data of one station
NormalizeStation(meastype, meas1, meas2) ==
    [i \in 1..Len(meas1) |->
        [azim |-> NormalizeMeas(meastype, meas1[i], meas2[i]).azim,
         elev |-> NormalizeMeas(meastype, meas1[i], meas2[i]).elev]]

(***************************************************************************)
(* calcVelocity: the projection of a line of sight on the radiant line.    *)
(* The geometry of a measurement is the point of the radiant line closest  *)
(* to its line of sight, or Parallel when the line of sight is parallel to *)
(* the radiant line (within tolerance).                                    *)
(***************************************************************************)
Parallel == <<>>

\* (C13's mutant: the division by the near-zero denominator is carried out)
findClosestPointsUnchecked(los) ==
    [raised |-> FALSE, rad_cpa |-> IF los = Parallel THEN <<0, 0, 0>> ELSE los]

\* wmpl.Utils.TrajConversions.findClosestPoints(stat, meas, state_vect, radiant_eci):
\* raises DegenerateGeometry on parallel lines, else returns the point
findClosestPoints(los) ==
    IF los = Parallel
    THEN [raised |-> TRUE, rad_cpa |-> <<0, 0, 0>>]
    ELSE [raised |-> FALSE, rad_cpa |-> los]

\* (C26's mutant: a station without measurements raises as well)
ProjectionRaisesOnEmpty(cpa) ==
    \/ \E k \in 1..Len(cpa) : cpa[k] = <<>>
    \/ \E k \in 1..Len(cpa) : \E i \in 1..Len(cpa[k]) : findClosestPoints(cpa[k][i]).raised

\* some call of findClosestPoints in the loops over stations and measurements raises
ProjectionRaises(cpa) ==
    \E k \in 1..Len(cpa) : \E i \in 1..Len(cpa[k]) : findClosestPoints(cpa[k][i]).raised

\* rad_cpa_all_stations
RadCpaAllStations(cpa) ==
    [k \in 1..Len(cpa) |-> [i \in 1..Len(cpa[k]) |-> findClosestPoints(cpa[k][i]).rad_cpa]]

(***************************************************************************)
(* calcVelocity, per station.                                              *)
(***************************************************************************)
\* (C5's mutant: the timing offset is not added)
TimeDataNoOffset(dtime_k, offset_k) == dtime_k

\* time_data = self.dtime[kmeas] + self.tref_offsets[kmeas]
TimeData(dtime_k, offset_k) == [i \in 1..Len(dtime_k) |-> dtime_k[i] + offset_k]

\* (C4's mutant: a later point of equal height replaces the begin point)
IsHigherOrEqual(ht_center, max_ht) == ht_center >= max_ht

\* if ht_center > max_ht
IsHigher(ht_center, max_ht) == ht_center > max_ht

\* the scan for the begin point over all stations, then all measurements
RECURSIVE ScanBeg(_, _, _)
ScanBeg(flat, i, acc) ==
    IF i > Len(flat) THEN acc
    ELSE IF IsHigher(vectMag(flat[i]), acc.max_ht)
    THEN ScanBeg(flat, i + 1,
                 [max_ht |-> vectMag(flat[i]), beg_cpa |-> flat[i], set |-> TRUE])
    ELSE ScanBeg(flat, i + 1, acc)

\* max_ht = 0, beg_cpa = None, then the scan
BegCpa(rad_cpa_all_stations) ==
    ScanBeg(Flatten(rad_cpa_all_stations), 1,
            [max_ht |-> 0, beg_cpa |-> <<0, 0, 0>>, set |-> FALSE])

\* (C3's mutant: the reference point is the station's last point)
RefPointLast(rad_cpa_list) == rad_cpa_list[Len(rad_cpa_list)]

\* ref_point: the station's own first CPA point
RefPoint(rad_cpa_list) == rad_cpa_list[1]

\* radiant_distances: dist = vectMag(ref_point - rad_cpa)
Lengths(rad_cpa_list) ==
    [i \in 1..Len(rad_cpa_list) |-> vectMag(VSub(RefPoint(rad_cpa_list), rad_cpa_list[i]))]

\* state_vector_distance: beg_dist = vectMag(beg_cpa - rad_cpa)
StateVectorDistance(rad_cpa_list, beg_cpa) ==
    [i \in 1..Len(rad_cpa_list) |-> vectMag(VSub(beg_cpa, rad_cpa_list[i]))]

\* np.r_[0, arr][:-1]
Shifted(arr) == [i \in 1..Len(arr) |-> IF i = 1 THEN 0 ELSE arr[i - 1]]

\* dists_diffs = length - dists_shifted
DistsDiffs(length) == [i \in 1..Len(length) |-> length[i] - Shifted(length)[i]]

\* time_diffs = time_data - time_shifted
TimeDiffs(time_data) ==
    [i \in 1..Len(time_data) |-> TVal(time_data[i] - Shifted(time_data)[i], 0)]

\* (C1's mutant: the zero time differences are left in place)
ReplaceZerosSkipped(time_diffs) == time_diffs

\* time_diffs[time_diffs == 0] = np.finfo(np.float64).eps
ReplaceZeros(time_diffs) ==
    [i \in 1..Len(time_diffs) |->
        IF TIsZero(time_diffs[i]) THEN MachineEps ELSE time_diffs[i]]

\* (C2's mutant: the entries with a zero time difference are skipped)
VelocityZeroSkip(length, time_data) ==
    SelectSeq([i \in 1..Len(length) |->
                   Divide(DistsDiffs(length)[i], TimeDiffs(time_data)[i])],
              LAMBDA v : ~TIsZero(v.den))

\* velocity = dists_diffs/time_diffs
Velocity(length, time_data) ==
    LET dists_diffs == DistsDiffs(length)
        time_diffs == ReplaceZeros(TimeDiffs(time_data))
    IN  [i \in 1..Len(length) |-> Divide(dists_diffs[i], time_diffs[i])]

(***************************************************************************)
(* calcVelocity, first-half-average mode: the leave-one-out loop.          *)
(***************************************************************************)
\* (C6's mutant: no station is popped)
UseIndicesAll(i, maxcameras) == 1..maxcameras

\* use_indices = list(range(maxcameras)), one station popped when there are
\* more than 2 (stations are numbered from 1 here, from 0 in the code)
UseIndices(i, maxcameras) ==
    IF maxcameras > 2 /\ i # 0
    THEN {k \in 1..maxcameras : k # i}
    ELSE 1..maxcameras

\* times, sv_dists: the (time, state-vector distance) pairs of the stations in
\* use_indices, in station order and measurement order
Pooled(times, svs, use_indices) ==
    Flatten([k \in 1..Len(times) |->
        IF k \in use_indices
        THEN [j \in 1..Len(times[k]) |-> <<times[k][j], svs[k][j]>>]
        ELSE <<>>])

\* temp_arr[np.argsort(temp_arr[:, 0])]: numpy sorts arrays this short by
\* insertion, which keeps equal times in their pooled order
RECURSIVE InsertByTime(_, _)
InsertByTime(sorted, p) ==
    IF sorted = <<>> THEN <<p>>
    ELSE IF sorted[Len(sorted)][1] <= p[1] THEN Append(sorted, p)
    ELSE Append(InsertByTime(SubSeq(sorted, 1, Len(sorted) - 1), p), sorted[Len(sorted)])

RECURSIVE SortByTime(_)
SortByTime(pts) ==
    IF pts = <<>> THEN <<>>
    ELSE InsertByTime(SortByTime(SubSeq(pts, 1, Len(pts) - 1)), pts[Len(pts)])

\* half_index = int(len(times)/2); times[:half_index], sv_dists[:half_index]
FirstHalf(pts) == SubSeq(pts, 1, Len(pts) \div 2)

RECURSIVE SumOver(_, _)
SumOver(f, n) == IF n = 0 THEN 0 ELSE f[n] + SumOver(f, n - 1)

\* scipy.optimize.curve_fit(lineFunc, t, y) in exact arithmetic, lineFunc(x, m, k)
\* = m*x + k.  Fewer points than the two parameters: it raises.  Otherwise, with
\* D = M*sum(t^2) - sum(t)^2, A = M*sum(t*y) - sum(t)*sum(y) and
\* C = M*sum(y^2) - sum(y)^2, the least-squares slope is A/D, the residual sum of
\* squares is (D*C - A^2)/(D*M), and the variance of the intercept is
\* RSS/(M - 2) * sum(t^2)/D.  With M = 2, or with D = 0 (a singular fit),
\* curve_fit fills the covariance with inf.
CurveFitLine(pts) ==
    LET M   == Len(pts)
        St  == SumOver([i \in 1..M |-> pts[i][1]], M)
        Sy  == SumOver([i \in 1..M |-> pts[i][2]], M)
        Stt == SumOver([i \in 1..M |-> pts[i][1] * pts[i][1]], M)
        Sty == SumOver([i \in 1..M |-> pts[i][1] * pts[i][2]], M)
        Syy == SumOver([i \in 1..M |-> pts[i][2] * pts[i][2]], M)
        D   == M * Stt - St * St
        A   == M * Sty - St * Sy
        C   == M * Syy - Sy * Sy
    IN  IF M < 2
        THEN [raised |-> TRUE, slope |-> Rat(0, 1), fin |-> FALSE, var |-> Rat(0, 1)]
        ELSE IF D = 0 \/ M = 2
        THEN [raised |-> FALSE, slope |-> IF D = 0 THEN Rat(0, 1) ELSE RatN(A, D),
              fin |-> FALSE, var |-> Rat(0, 1)]
        ELSE [raised |-> FALSE, slope |-> RatN(A, D), fin |-> TRUE,
              var |-> RatN((D * C - A * A) * Stt, D * D * M * (M - 2))]

\* (C8's mutant: a later candidate of equal standard deviation replaces the best)
StddevLessOrEqual(fit, best) ==
    /\ fit.fin
    /\ \/ ~best.fin
       \/ fit.var.num * best.var.den <= best.var.num * fit.var.den

\* intercept_stddev < best_stddev (the square root keeps the order of the
\* variances; best_stddev starts at np.inf)
StddevLess(fit, best) ==
    /\ fit.fin
    /\ \/ ~best.fin
       \/ fit.var.num * best.var.den < best.var.num * fit.var.den

\* (C7's mutant: the loop does not end after the first pass)
BreakNever(maxcameras) == FALSE

\* if self.maxcameras == 2: break
BreakAfterFirst(maxcameras) == maxcameras = 2

\* one pass of the loop body for candidate i: pool, sort, halve, fit
FitCandidate(i, maxcameras, times, svs) ==
    CurveFitLine(FirstHalf(SortByTime(Pooled(times, svs, UseIndices(i, maxcameras)))))

\* for i in range(1, maxcameras + 1): ... ; break after the first pass when
\* maxcameras == 2.  acc: the candidates evaluated so far and the best one.
RECURSIVE FhaLoop(_, _, _, _, _)
FhaLoop(i, maxcameras, times, svs, acc) ==
    IF i > maxcameras THEN acc
    ELSE LET fit   == FitCandidate(i, maxcameras, times, svs)
             tried == Append(acc.candidates, UseIndices(i, maxcameras))
         IN  IF fit.raised
             THEN [acc EXCEPT !.raised = TRUE, !.candidates = tried]
             ELSE LET nxt == IF StddevLess(fit, acc.best_stddev)
                             THEN [acc EXCEPT !.candidates = tried,
                                              !.best_stddev = [fin |-> fit.fin, var |-> fit.var],
                                              !.best_solution = fit.slope,
                                              !.best_index = i]
                             ELSE [acc EXCEPT !.candidates = tried]
                  IN  IF BreakAfterFirst(maxcameras) THEN nxt
                      ELSE FhaLoop(i + 1, maxcameras, times, svs, nxt)

\* best_stddev = np.inf, best_solution = None, then the loop
FhaSelect(maxcameras, times, svs) ==
    FhaLoop(1, maxcameras, times, svs,
            [raised |-> FALSE, candidates |-> <<>>,
             best_stddev |-> [fin |-> FALSE, var |-> Rat(0, 1)],
             best_solution |-> Rat(0, 1), best_index |-> 0])

\* self.vbegin = best_solution[0]/1000
VbeginFromSlope(slope) == Rat(slope.num, slope.den * 1000)

\* the loops of calcVelocity over the stations: times, lengths, state-vector
\* distances and velocities; cpa[k][i] is the point findClosestPoints returns
\* for measurement i of station k (rad_cpa), fixed by the solver outputs
StationTimes(o) == [k \in 1..o.maxcameras |-> TimeData(o.dtime[k], o.tref_offsets[k])]

StationLengths(o, cpa) == [k \in 1..o.maxcameras |-> Lengths(cpa[k])]

StationSvds(o, cpa, beg) ==
    [k \in 1..o.maxcameras |-> StateVectorDistance(cpa[k], beg.beg_cpa)]

StationVelocities(lengths, times) ==
    [k \in 1..Len(lengths) |-> Velocity(lengths[k], times[k])]

SetKinematics(o, cpa, beg, times, lengths) ==
    [o EXCEPT !.lengths = lengths,
              !.state_vector_distances = StationSvds(o, cpa, beg),
              !.velocities = StationVelocities(lengths, times),
              !.l_rad_cpa = cpa, !.l_beg = beg, !.stage = "velocity"]

\* if int(self.velmodel) == 0: self.vavg = self.vbegin
SetVavg(o) == IF o.velmodel = 0 THEN [o EXCEPT !.vavg = o.vbegin] ELSE o

\* the end of the first-half-average block: self.vbegin = best_solution[0]/1000;
\* curve_fit may have raised, and best_solution[0] raises when it is still None
SetVbegin(o, sel) ==
    IF sel.raised
    THEN [o EXCEPT !.l_candidates = sel.candidates, !.l_best_index = sel.best_index,
                   !.raised = "FitError"]
    ELSE IF sel.best_index = 0
    THEN [o EXCEPT !.l_candidates = sel.candidates, !.l_best_index = sel.best_index,
                   !.raised = "TypeError"]
    ELSE [o EXCEPT !.l_candidates = sel.candidates, !.l_best_index = sel.best_index,
                   !.vbegin = VbeginFromSlope(sel.best_solution)]

\* (C19's mutant: the time sort is written back into the stations' series)
FirstHalfAverageSortsInPlace(o) ==
    IF ~o.fha_velocity THEN o
    ELSE SetVbegin(
             SetVavg([o EXCEPT !.times =
                 [k \in 1..Len(o.times) |->
                     [i \in 1..Len(o.times[k]) |->
                         SortByTime([j \in 1..Len(o.times[k]) |->
                             <<o.times[k][j], o.state_vector_distances[k][j]>>])[i][1]]]]),
             FhaSelect(o.maxcameras, o.times, o.state_vector_distances))

\* if self.fha_velocity: ...
FirstHalfAverage(o) ==
    IF ~o.fha_velocity THEN o
    ELSE SetVbegin(SetVavg(o), FhaSelect(o.maxcameras, o.times, o.state_vector_distances))

\* the first two loops of calcVelocity: self.times for every station, then the
\* measurements of every station as azimuth and elevation
ConvertMeasurements(o) ==
    IF IsUnbound(o.meastype)
    THEN [o EXCEPT !.times = StationTimes(o), !.l_azim_elev = <<>>,
                   !.raised = "UnboundLocalError",
                   !.l_trace = Append(@, "calcVelocity")]
    ELSE [o EXCEPT !.times = StationTimes(o),
                   !.l_azim_elev = [k \in 1..o.maxcameras |->
                                       NormalizeStation(o.meastype, o.meas1[k], o.meas2[k])],
                   !.l_trace = Append(@, "calcVelocity")]

\* the begin point, the lengths, the state-vector distances, the velocities and
\* the first-half average, from the points on the radiant line
Reduce(o, rad_cpa_all_stations) ==
    FirstHalfAverage(SetKinematics(o, rad_cpa_all_stations, BegCpa(rad_cpa_all_stations),
                                   o.times, StationLengths(o, rad_cpa_all_stations)))

\* self.velocities = [], self.lengths = [], self.state_vector_distances = [],
\* then the projections, which may raise, then the kinematics
ProjectAndReduce(o, cpa) ==
    IF o.raised # "none" THEN o
    ELSE IF ProjectionRaises(cpa)
    THEN [o EXCEPT !.velocities = <<>>, !.lengths = <<>>, !.state_vector_distances = <<>>,
                   !.raised = "DegenerateGeometry"]
    ELSE Reduce(o, RadCpaAllStations(cpa))

\* the whole of calcVelocity
calcVelocity(o, cpa) == ProjectAndReduce(ConvertMeasurements(o), cpa)

(***************************************************************************)
(* fitLagIntercept and calcLag.                                            *)
(***************************************************************************)
\* (C21's mutant: a quarter of the points, at least 4 of them, at most all)
QuartSizeMin4(n) ==
    LET quart_size == IF n \div 4 < 4 THEN 4 ELSE n \div 4
    IN  IF quart_size > n THEN n ELSE quart_size

\* quart_size = int(0.25*len(time)); all points when that is below 4
QuartSize(n) == LET quart_size == n \div 4 IN IF quart_size < 4 THEN n ELSE quart_size

\* lag = length - lineFunc(time_data, v_init, intercept), the intercept being the
\* least-squares one over the first QuartSize points with the slope fixed at
\* v_init = a/b: the mean of length[j] - v_init*time[j].  Each lag is a rational.
LagOf(time_data, length, v_init) ==
    LET q == QuartSize(Len(time_data))
        a == v_init.num
        b == v_init.den
        r == [j \in 1..Len(time_data) |-> b * length[j] - a * time_data[j]]
        S == SumOver(r, q)
    IN  [i \in 1..Len(time_data) |-> Rat(q * r[i] - S, q * b)]

\* quart_time = time[:quart_size] of the first n stations, as handed to curve_fit
QuartTimes(times, n) ==
    [k \in 1..n |-> SubSeq(times[k], 1, QuartSize(Len(times[k])))]

\* the loop of calcLag; curve_fit raises on a station without points, and the
\* lags of the stations before it stay appended
RECURSIVE LagLoop(_, _, _)
LagLoop(o, k, acc) ==
    IF k > Len(o.times)
    THEN [o EXCEPT !.lags = acc, !.l_quart_time = QuartTimes(o.times, Len(acc)),
                   !.stage = "lag"]
    ELSE IF Len(o.times[k]) = 0
    THEN [o EXCEPT !.lags = acc, !.l_quart_time = QuartTimes(o.times, Len(acc)),
                   !.raised = "FitError"]
    ELSE LagLoop(o, k + 1,
                 Append(acc, LagOf(o.times[k], o.lengths[k],
                                   Rat(o.vbegin.num * 1000, o.vbegin.den))))

calcLag(o) ==
    LagLoop([o EXCEPT !.l_lag_v_init = <<Rat(o.vbegin.num * 1000, o.vbegin.den)>>,
                      !.l_trace = Append(@, "calcLag")],
            1, <<>>)

(***************************************************************************)
(* calcAverages.                                                           *)
(***************************************************************************)
\* (length[-1] - length[0])/(time_data[-1] - time_data[0])
StationAverage(length, time_data) ==
    Divide(length[Len(length)] - length[1],
           TVal(time_data[Len(time_data)] - time_data[1], 0))

\* jd_data = self.jdt_ref + time_data/86400.0, each date an exact rational
SecondsPerDay == 86400

JdData(jdt_ref, time_data) ==
    [i \in 1..Len(time_data) |-> Rat(jdt_ref * SecondsPerDay + time_data[i], SecondsPerDay)]

RECURSIVE RatSum(_, _)
RatSum(rs, n) ==
    IF n = 0 THEN Rat(0, 1)
    ELSE LET rest == RatSum(rs, n - 1)
             g == GCD(rest.den, rs[n].den)
         IN  RatN(rest.num * (rs[n].den \div g) + rs[n].num * (rest.den \div g),
                  (rest.den \div g) * rs[n].den)

\* np.mean of a non-empty list of numbers
Mean(rs) == RatN(RatSum(rs, Len(rs)).num, RatSum(rs, Len(rs)).den * Len(rs))

\* jd_avg = np.mean([np.mean(jd_data) for jd_data in self.JD_data_cameras])
JdAvg(jdt_ref, times) ==
    Mean([k \in 1..Len(times) |-> Mean(JdData(jdt_ref, times[k]))])

\* the loop over range(maxcameras); length[-1] of an empty array is an IndexError
RECURSIVE AvgLoop(_, _, _)
AvgLoop(o, k, acc) ==
    IF k > o.maxcameras
    THEN [o EXCEPT !.l_v_avg_list = acc, !.l_jd_avg = <<JdAvg(o.jdt_ref, o.times)>>,
                   !.stage = "averages"]
    ELSE IF Len(o.lengths[k]) = 0
    THEN [o EXCEPT !.l_v_avg_list = acc, !.raised = "IndexError"]
    ELSE AvgLoop(o, k + 1, Append(acc, StationAverage(o.lengths[k], o.times[k])))

calcAverages(o) == AvgLoop([o EXCEPT !.l_trace = Append(@, "calcAverages")], 1, <<>>)

(***************************************************************************)
(* The object and its methods as actions.                                  *)
(***************************************************************************)
\* the reference Julian date of the model, in days
JdtRef == 1

\* jd2Date(self.jdt_ref, dt_obj=True).strftime('%Y%m%d_%H%M%S'): the date and
\* time of day to the second.  The epochs of the model are whole days, which
\* the stamp tells apart; it is written here as the epoch's count of seconds.
Stamp(jdt_ref) == jdt_ref * SecondsPerDay

(***************************************************************************)
(* The velocity-model identifier and the name of the result file.  Strings *)
(* that the code parses or formats are sequences of characters.            *)
(***************************************************************************)
DigitChars == <<"0", "1", "2", "3", "4", "5", "6", "7", "8", "9">>

IsDigit(c) == \E d \in 1..10 : DigitChars[d] = c

DigitVal(c) == (CHOOSE d \in 1..10 : DigitChars[d] = c) - 1

FhaChars == <<"f", "h", "a">>

\* sub in s
Contains(s, sub) ==
    \E i \in 1..(Len(s) - Len(sub) + 1) : SubSeq(s, i, i + Len(sub) - 1) = sub

\* s.replace(sub, ''): every occurrence removed, from the left
RECURSIVE Removed(_, _)
Removed(s, sub) ==
    IF Len(s) < Len(sub) THEN s
    ELSE IF SubSeq(s, 1, Len(sub)) = sub
    THEN Removed(SubSeq(s, Len(sub) + 1, Len(s)), sub)
    ELSE <<Head(s)>> \o Removed(Tail(s), sub)

\* int(s) of a string of digits
RECURSIVE IntOfDigits(_)
IntOfDigits(s) ==
    IF s = <<>> THEN 0
    ELSE 10 * IntOfDigits(SubSeq(s, 1, Len(s) - 1)) + DigitVal(s[Len(s)])

\* int(s) raises ValueError unless s is a number
IntRaises(s) == s = <<>> \/ \E i \in 1..Len(s) : ~IsDigit(s[i])

\* '{:d}'.format(n), n >= 0
RECURSIVE FormatInt(_)
FormatInt(n) ==
    IF n < 10 THEN <<DigitChars[n + 1]>>
    ELSE FormatInt(n \div 10) \o <<DigitChars[(n % 10) + 1]>>

\* velmodel = str(velmodel); if 'fha' in velmodel: ... int(velmodel.replace(
\* 'fha', '')) else: ... int(velmodel)
ParseVelModel(velmodel) ==
    LET fha_velocity == Contains(velmodel, FhaChars)
        digits == IF fha_velocity THEN Removed(velmodel, FhaChars) ELSE velmodel
    IN  [fha_velocity |-> fha_velocity,
         raised |-> IntRaises(digits),
         velmodel |-> IF IntRaises(digits) THEN 0 ELSE IntOfDigits(digits)]

\* (C25's mutant: the name leaves the first-half-average suffix out)
FileNameNoSuffix(o) ==
    [stamp |-> o.file_name,
     rest |-> <<"_gural">> \o FormatInt(o.velmodel) \o <<"_trajectory.pickle">>]

\* self.file_name + '_gural{:d}{:s}_trajectory.pickle'.format(self.velmodel,
\* fha_suffix)
FileName(o) ==
    [stamp |-> o.file_name,
     rest |-> <<"_gural">> \o FormatInt(o.velmodel)
                  \o (IF o.fha_velocity THEN FhaChars ELSE <<>>)
                  \o <<"_trajectory.pickle">>]

\* os.path.join(dir_path, file_name)
Path(dir_path, file_name) == [dir |-> dir_path, name |-> file_name]

\* a directory without files; no input file; nothing loaded
NoFiles == <<>>

NoInput == <<>>

NotLoaded == <<>>

\* wmpl.Utils.Pickling.savePickle: pickle.dump(obj, f) into the file at
\* os.path.join(dir_path, file_name), replacing what the file held
Dump(fs, obj, dir_path, file_name) ==
    [n \in DOMAIN fs \cup {Path(dir_path, file_name)} |->
        IF n = Path(dir_path, file_name) THEN obj ELSE fs[n]]

\* __init__: the attributes after construction
NewObject(maxcameras, velmodel, fha, meastype, save_results) ==
    [maxcameras |-> maxcameras, velmodel |-> velmodel, fha_velocity |-> fha,
     meastype |-> meastype, save_results |-> save_results,
     nummeas_lst |-> <<>>, has_traj |-> TRUE,
     dtime |-> <<>>, tref_offsets |-> <<>>, meas1 |-> <<>>, meas2 |-> <<>>,
     l_azim_elev |-> <<>>,
     vbegin |-> Rat(0, 1), vavg |-> Rat(0, 1),
     times |-> <<>>, lengths |-> <<>>, state_vector_distances |-> <<>>,
     velocities |-> <<>>, lags |-> <<>>,
     l_rad_cpa |-> <<>>, l_beg |-> [max_ht |-> 0, beg_cpa |-> <<0, 0, 0>>, set |-> FALSE],
     l_candidates |-> <<>>, l_best_index |-> 0, l_v_avg_list |-> <<>>,
     l_solver_vbegin |-> Rat(0, 1),
     l_lag_v_init |-> <<>>, orbit |-> <<>>, l_saved |-> <<>>, l_trace |-> <<>>,
     l_before |-> <<>>,
     jdt_ref |-> JdtRef, l_quart_time |-> <<>>, l_jd_avg |-> <<>>,
     has_traj_lib |-> TRUE, output_dir |-> ".", file_name |-> Stamp(JdtRef),
     l_velmodel_arg |-> <<>>, l_object_no |-> 1, l_pickle_calls |-> 0,
     stage |-> "constructed", raised |-> "none"]

\* InitTrajectoryStructure: the solver's structure, with the number of times
\* MeteorTrajectory was called on it and the status its last call returned
NewStructure ==
    [meas1 |-> <<>>, meas2 |-> <<>>, dtime |-> <<>>, lat |-> <<>>, lon |-> <<>>,
     hkm |-> <<>>, run_calls |-> 0, solve_calls |-> 0, status |-> 0, freed |-> FALSE]

Init ==
    /\ \E maxcameras \in CameraCounts, vm \in VelModels :
           self = NewObject(maxcameras, vm[1], vm[2], DefaultMeastype, TRUE)
    /\ traj = NewStructure
    /\ geom = <<>>
    /\ files = NoFiles
    /\ milig = NoInput
    /\ loaded = NotLoaded

\* self.nummeas_lst.append(nummeas)
InfillObject(o, time_data) == [o EXCEPT !.nummeas_lst = Append(@, Len(time_data))]

\* self.traj_lib.InfillTrajectoryStructure(nummeas, theta_data, phi_data,
\* time_data, noise, lat, lon, ele/1000.0, self.traj); heights are whole km
InfillTrajectoryStructure(t, theta_data, phi_data, time_data, lat, lon, ele) ==
    [t EXCEPT !.meas1 = Append(@, theta_data),
              !.meas2 = Append(@, phi_data),
              !.dtime = Append(@, time_data),
              !.lat = Append(@, lat),
              !.lon = Append(@, lon),
              !.hkm = Append(@, ele \div 1000)]

\* infillTrajectory(theta_data, phi_data, time_data, lat, lon, ele) for a station
\* at latitude 0, longitude 0 and height 0
infillTrajectory(theta_data, phi_data, time_data) ==
    /\ self' = InfillObject(self, time_data)
    /\ traj' = InfillTrajectoryStructure(traj, theta_data, phi_data, time_data,
                                         Ang(0, 0), Ang(0, 0), 0)
    /\ UNCHANGED <<geom, files, milig, loaded>>

\* the fields of the solver's structure in the order run() reads them
ReadOrder ==
    <<"numcameras", "camera_lat", "camera_lon", "camera_hkm", "meashat_ECI",
      "solution", "ra_radiant", "dec_radiant", "max_convergence",
      "ra_radiant_IP", "dec_radiant_IP", "vbegin", "decel1", "decel2",
      "ra_sigma", "dec_sigma", "vbegin_sigma", "decel1_sigma", "decel2_sigma",
      "meas1", "meas2", "dtime", "meas_lat", "meas_lon", "meas_hkm", "meas_range",
      "meas_vel", "tref_offsets", "model_lat", "model_lon", "model_hkm",
      "model_range", "model_vel", "model_fit1", "model_fit2", "model_time",
      "rbeg_lat", "rbeg_lon", "rbeg_hkm", "rbeg_lat_sigma", "rbeg_lon_sigma",
      "rbeg_hkm_sigma", "rend_lat", "rend_lon", "rend_hkm", "rend_lat_sigma",
      "rend_lon_sigma", "rend_hkm_sigma">>

\* the fields of TrajectoryInfo under SOLUTION OUTPUT PRODUCTS
OutputFields ==
    {"solution", "ra_radiant", "dec_radiant", "vbegin", "decel1", "decel2",
     "ra_sigma", "dec_sigma", "vbegin_sigma", "decel1_sigma", "decel2_sigma",
     "max_convergence", "ra_radiant_IP", "dec_radiant_IP", "ra_radiant_IPW",
     "dec_radiant_IPW", "ra_radiant_LMS", "dec_radiant_LMS", "dtime_ref",
     "dtime_tzero", "dtime_beg", "dtime_end", "tref_offsets", "meas_lat",
     "meas_lon", "meas_hkm", "meas_range", "meas_vel", "model_lat", "model_lon",
     "model_hkm", "model_range", "model_vel", "model_fit1", "model_fit2",
     "model_time", "rbeg_lat", "rbeg_lon", "rbeg_hkm", "rbeg_lat_sigma",
     "rbeg_lon_sigma", "rbeg_hkm_sigma", "rend_lat", "rend_lon", "rend_hkm",
     "rend_lat_sigma", "rend_lon_sigma", "rend_hkm_sigma"}

\* the position in ReadOrder of the first field read through nummeas_lst
\* (double3pointerToArray(self.traj.meashat_ECI, maxcameras, nummeas_lst, 3))
FirstSizedRead == CHOOSE i \in 1..Len(ReadOrder) : ReadOrder[i] = "meashat_ECI"

\* (C15's mutant: the structure is freed before it is read)
ReadResultsFreeFirst(o, t, sol) ==
    IF Len(o.nummeas_lst) < o.maxcameras
    THEN [o EXCEPT !.raised = "IndexError",
                   !.l_trace = @ \o <<"MeteorTrajectory">>
                                 \o SubSeq(ReadOrder, 1, FirstSizedRead)]
    ELSE [o EXCEPT !.meas1 = [k \in 1..o.maxcameras |-> t.meas1[k]],
                   !.meas2 = [k \in 1..o.maxcameras |-> t.meas2[k]],
                   !.dtime = [k \in 1..o.maxcameras |-> t.dtime[k]],
                   !.tref_offsets = sol.tref_offsets,
                   !.vbegin = sol.vbegin,
                   !.l_solver_vbegin = sol.vbegin,
                   !.has_traj = FALSE, !.has_traj_lib = FALSE,
                   !.raised = "none",
                   !.l_trace = @ \o <<"MeteorTrajectory", "FreeTrajectoryStructure">>
                                 \o ReadOrder,
                   !.stage = "read"]

\* run() up to the deletion of the bindings: MeteorTrajectory, the read-out of
\* the structure, FreeTrajectoryStructure, del self.traj_lib, del self.traj.
\* The return value of MeteorTrajectory is dropped.  double3pointerToArray and
\* double2pointerToArray index nummeas_lst[i] for every i in range(maxcameras):
\* an IndexError when fewer stations were filled in, which ends run() with the
\* structure neither freed nor deleted.
ReadResults(o, t, sol) ==
    IF Len(o.nummeas_lst) < o.maxcameras
    THEN [o EXCEPT !.raised = "IndexError",
                   !.l_trace = @ \o <<"MeteorTrajectory">>
                                 \o SubSeq(ReadOrder, 1, FirstSizedRead)]
    ELSE [o EXCEPT !.meas1 = [k \in 1..o.maxcameras |-> t.meas1[k]],
                   !.meas2 = [k \in 1..o.maxcameras |-> t.meas2[k]],
                   !.dtime = [k \in 1..o.maxcameras |-> t.dtime[k]],
                   !.tref_offsets = sol.tref_offsets,
                   !.vbegin = sol.vbegin,
                   !.l_solver_vbegin = sol.vbegin,
                   !.has_traj = FALSE, !.has_traj_lib = FALSE,
                   !.raised = "none",
                   !.l_trace = @ \o <<"MeteorTrajectory">> \o ReadOrder
                                 \o <<"FreeTrajectoryStructure">>,
                   !.stage = "read"]

\* a stage of run() is skipped once an earlier one has raised
ThenLag(o) == IF o.raised = "none" THEN calcLag(o) ELSE o

ThenAverages(o) == IF o.raised = "none" THEN calcAverages(o) ELSE o

\* self.orbit = calcOrbit(self.radiant_eci, self.vbegin*1000, v_avg, ...), v_avg
\* being the mean of the stations' average velocities
calcOrbit(o) ==
    [o EXCEPT !.orbit = <<[v_init |-> Rat(o.vbegin.num * 1000, o.vbegin.den),
                           v_avg_list |-> o.l_v_avg_list]>>,
              !.l_trace = Append(@, "calcOrbit")]

ThenOrbit(o) == IF o.raised = "none" THEN calcOrbit(o) ELSE o

\* if self.save_results: savePickle(self, output_dir, file_name
\*     + '_gural{:d}{:s}_trajectory.pickle'.format(velmodel, fha_suffix))
SaveResults(o) ==
    IF o.save_results
    THEN [o EXCEPT !.l_saved = Append(@, [velmodel |-> o.velmodel,
                                          fha_suffix |-> IF o.fha_velocity THEN "fha" ELSE ""]),
                   !.l_trace = Append(@, "savePickle"),
                   !.stage = "done"]
    ELSE [o EXCEPT !.stage = "done"]

ThenDone(o) == IF o.raised = "none" THEN SaveResults(o) ELSE o

\* (C16's mutant: the lag is computed before the velocities)
StagesLagFirst(o, cpa) ==
    IF o.raised = "none"
    THEN ThenDone(ThenOrbit(ThenAverages(calcVelocity(ThenLag(o), cpa))))
    ELSE o

\* run() after the read-out: calcVelocity, calcLag, calcAverages, calcOrbit and
\* the saving, in this order
Stages(o, cpa) ==
    IF o.raised = "none"
    THEN ThenDone(ThenOrbit(ThenAverages(ThenLag(calcVelocity(o, cpa)))))
    ELSE o

\* run().  On an object whose bindings were deleted by an earlier run(),
\* self.traj_lib raises AttributeError before anything else happens.
RunObject(o, t, sol, cpa) ==
    IF o.has_traj
    THEN Stages(ReadResults(o, t, sol), cpa)
    ELSE [o EXCEPT !.raised = "AttributeError"]

RunStructure(o, t, sol) ==
    IF o.has_traj
    THEN [t EXCEPT !.run_calls = @ + 1,
                   !.solve_calls = @ + 1,
                   !.status = sol.status,
                   !.freed = (Len(o.nummeas_lst) >= o.maxcameras)]
    ELSE [t EXCEPT !.run_calls = @ + 1]

RunGeom(o, g, cpa) ==
    IF o.has_traj /\ Len(o.nummeas_lst) >= o.maxcameras THEN cpa ELSE g

\* the file system after run() on the object o, which became after
RunFiles(o, after, fs) ==
    IF Len(after.l_saved) > Len(o.l_saved)
    THEN Dump(fs, after, after.output_dir, FileName(after))
    ELSE fs

run(sol, cpa) ==
    /\ self' = RunObject(self, traj, sol, cpa)
    /\ traj' = RunStructure(self, traj, sol)
    /\ geom' = RunGeom(self, geom, cpa)
    /\ files' = RunFiles(self, RunObject(self, traj, sol, cpa), files)
    /\ UNCHANGED <<milig, loaded>>

\* what the solver and the geometry may return for the stations filled in
SolverOutputs(o) ==
    [tref_offsets : [1..o.maxcameras -> OffsetValues],
     vbegin : {Rat(v, 1) : v \in SolverVbegin},
     status : SolverStatus]

RECURSIVE CpaChoices(_)
CpaChoices(nums) ==
    IF nums = <<>> THEN {<<>>}
    ELSE {<<h>> \o r : h \in [1..Head(nums) -> CpaPoints], r \in CpaChoices(Tail(nums))}

\* angles of a station whose directions are not the subject: all zero
DefaultAngles(time_data) == [i \in 1..Len(time_data) |-> Ang(0, 0)]

\* the caller fills in at most maxcameras stations, then calls run() once
CanInfill == /\ self.stage = "constructed"
             /\ self.raised = "none"
             /\ Len(self.nummeas_lst) < self.maxcameras

CanRun == self.stage = "constructed" /\ self.raised = "none"

Infill == /\ CanInfill
          /\ \E time_data \in SeqsUpTo(TimeValues, MaxMeas) :
                 infillTrajectory(DefaultAngles(time_data), DefaultAngles(time_data), time_data)

Solve == /\ CanRun
         /\ \E sol \in SolverOutputs(self), cpa \in CpaChoices(self.nummeas_lst) :
                run(sol, cpa)

Next == Infill \/ Solve

Spec == Init /\ [][Next]_vars

(***************************************************************************)
(* The first-half-average mode on stations long enough for the line fits:  *)
(* a vertical trajectory (the radiant line through the Earth's centre,     *)
(* points (0, 0, h)), the meteor at height FhaTopHeight - tau at true time *)
(* tau.  A station reports the time t = tau + bias, bias being its timing  *)
(* bias; a wobble displaces its second point off the line.                 *)
(***************************************************************************)
FhaCameraCounts == {1, 2, 3}

FhaTimeSeqs == {<<0, 1>>, <<0, 1, 2>>, <<3, 4, 5>>, <<0, 1, 2, 3, 4, 5>>}

FhaBiases == {-2, 0, 2}

FhaWobbles == {0, 1}

FhaTopHeight == 20

\* the CPA points of a station with the given reported times, bias and wobble
FhaCpaList(time_data, bias, wobble) ==
    [i \in 1..Len(time_data) |->
        <<0, 0, FhaTopHeight - (time_data[i] - bias) - (IF i = 2 THEN wobble ELSE 0)>>]

FhaCpa(dtime, bias, wobble) ==
    [k \in 1..Len(dtime) |-> FhaCpaList(dtime[k], bias[k], wobble[k])]

InitFha ==
    /\ \E maxcameras \in FhaCameraCounts :
           self = NewObject(maxcameras, 0, TRUE, DefaultMeastype, TRUE)
    /\ traj = NewStructure
    /\ geom = <<>>
    /\ files = NoFiles
    /\ milig = NoInput
    /\ loaded = NotLoaded

FhaInfill == /\ CanInfill
             /\ \E time_data \in FhaTimeSeqs :
                    infillTrajectory(DefaultAngles(time_data), DefaultAngles(time_data), time_data)

FhaSolve ==
    /\ CanRun
    /\ Len(self.nummeas_lst) = self.maxcameras
    /\ \E bias \in [1..self.maxcameras -> FhaBiases],
          wobble \in [1..self.maxcameras -> FhaWobbles] :
           run([tref_offsets |-> [k \in 1..self.maxcameras |-> 0], vbegin |-> Rat(2, 1),
                status |-> 0],
               FhaCpa(traj.dtime, bias, wobble))

NextFha == FhaInfill \/ FhaSolve

SpecFha == InitFha /\ [][NextFha]_vars

(***************************************************************************)
(* Sequences of calls on one object: run() more than once, with a solver   *)
(* whose return status may report failure, and calcVelocity and calcLag    *)
(* called again by the caller after a run() that completed.  The geometry  *)
(* is that of the vertical trajectory above.                               *)
(***************************************************************************)
MaxRuns == 2

RunsStatus == {0, 1}

RunsTimeSeqs == {<<0>>, <<1, 0>>, <<0, 1, 2, 3, 4, 5>>, <<3, 4, 5, 0, 1, 2>>}

\* the quantities calcVelocity and calcLag derive
Derived(o) ==
    [times |-> o.times, lengths |-> o.lengths,
     state_vector_distances |-> o.state_vector_distances,
     velocities |-> o.velocities, lags |-> o.lags,
     vbegin |-> o.vbegin, vavg |-> o.vavg]

\* traj.calcVelocity(); traj.calcLag() on an object already solved; l_before
\* keeps the derived quantities as they were before the two calls
Recompute(o, cpa) ==
    [ThenLag(calcVelocity([o EXCEPT !.l_before = <<Derived(o)>>, !.raised = "none"], cpa))
        EXCEPT !.stage = "done"]

InitRuns ==
    /\ \E maxcameras \in CameraCounts, vm \in VelModels, save_results \in BOOLEAN :
           self = NewObject(maxcameras, vm[1], vm[2], DefaultMeastype, save_results)
    /\ traj = NewStructure
    /\ geom = <<>>
    /\ files = NoFiles
    /\ milig = NoInput
    /\ loaded = NotLoaded

RunsInfill ==
    /\ self.has_traj
    /\ Len(self.nummeas_lst) < self.maxcameras
    /\ \E time_data \in RunsTimeSeqs :
           infillTrajectory(DefaultAngles(time_data), DefaultAngles(time_data), time_data)

RunsSolve ==
    /\ traj.run_calls < MaxRuns
    /\ \E status \in RunsStatus, wobble \in [1..Len(traj.dtime) -> FhaWobbles] :
           run([tref_offsets |-> [k \in 1..self.maxcameras |-> 0], vbegin |-> Rat(2, 1),
                status |-> status],
               FhaCpa(traj.dtime, [k \in 1..Len(traj.dtime) |-> 0], wobble))

RunsRecompute ==
    /\ self.stage = "done"
    /\ self.l_before = <<>>
    /\ self' = Recompute(self, geom)
    /\ UNCHANGED <<traj, geom, files, milig, loaded>>

NextRuns == RunsInfill \/ RunsSolve \/ RunsRecompute

SpecRuns == InitRuns /\ [][NextRuns]_vars

(***************************************************************************)
(* The measurement conventions and the projection: stations of one         *)
(* measurement each, with azimuths and zenith angles on and next to the    *)
(* quarter turns, every meastype the constructor accepts (it accepts any   *)
(* number), and lines of sight that may be parallel to the radiant line.   *)
(***************************************************************************)
MaxUlps == 3

ConvMeasTypes == {1, 2, 3, 4, 5}

\* the floats within MaxUlps*2^-52 of 0, pi/2, pi and 3*pi/2
ConvAzimuths ==
    {Ang(q, f) : q \in 0..3, f \in {g \in -MaxUlps..MaxUlps : g % 4 = 0}}
    \cup {Ang(q, f) : q \in 0..2, f \in {g \in -MaxUlps..MaxUlps : g % 2 = 0}}
    \cup {Ang(q, f) : q \in 0..1, f \in -MaxUlps..MaxUlps}

ConvZeniths == {Ang(0, 0), Ang(1, 0), Ang(1, 1)}

ConvLos == {<<3, 0, 4>>, Parallel}

InitConv ==
    /\ \E maxcameras \in CameraCounts, meastype \in ConvMeasTypes :
           self = NewObject(maxcameras, 1, FALSE, meastype, TRUE)
    /\ traj = NewStructure
    /\ geom = <<>>
    /\ files = NoFiles
    /\ milig = NoInput
    /\ loaded = NotLoaded

ConvInfill ==
    /\ CanInfill
    /\ \E theta \in ConvAzimuths, phi \in ConvZeniths :
           infillTrajectory(<<theta>>, <<phi>>, <<0>>)

ConvSolve ==
    /\ CanRun
    /\ Len(self.nummeas_lst) = self.maxcameras
    /\ \E los \in [1..self.maxcameras -> ConvLos] :
           run([tref_offsets |-> [k \in 1..self.maxcameras |-> 0], vbegin |-> Rat(2, 1),
                status |-> 0],
               [k \in 1..self.maxcameras |-> <<los[k]>>])

NextConv == ConvInfill \/ ConvSolve

SpecConv == InitConv /\ [][NextConv]_vars

(***************************************************************************)
(* Properties.  KinematicsSet: calcVelocity has stored its per-station     *)
(* arrays (it stores them before the first-half-average block can raise).  *)
(***************************************************************************)
KinematicsSet == self.velocities # <<>>

Stations == 1..self.maxcameras

PrevTime(k, i) == IF i = 1 THEN 0 ELSE self.times[k][i - 1]

PrevLength(k, i) == IF i = 1 THEN 0 ELSE self.lengths[k][i - 1]

\* C1: every velocity entry is a length delta over a non-zero time delta, and a
\* zero point-to-point time delta (a repeated timestamp, or a first timestamp of
\* 0) has been replaced by machine epsilon: no division by zero occurs.
C1_NoZeroTimeDelta ==
    KinematicsSet =>
        \A k \in Stations : \A i \in 1..Len(self.velocities[k]) :
            LET v == self.velocities[k][i]
            IN  /\ ~TIsZero(v.den)
                /\ v.kind = "num"
                /\ v.num = self.lengths[k][i] - PrevLength(k, i)
                /\ (self.times[k][i] - PrevTime(k, i) = 0) => v.den = MachineEps

\* a station whose first time is 0 only after a non-zero offset is added, and
\* whose second time repeats the first
C1_Witness ==
    /\ KinematicsSet
    /\ \E k \in Stations :
           /\ self.tref_offsets[k] # 0
           /\ self.times[k] = <<0, 0>>
           /\ self.velocities[k][1].den = MachineEps
           /\ self.velocities[k][2].den = MachineEps

\* C2: for every station the arrays times, lengths, state_vector_distances and
\* velocities have exactly nummeas_lst[k] entries, entry i being that of
\* measurement i, also when time deltas are zero.
C2_ArraysAligned ==
    KinematicsSet =>
        \A k \in Stations :
            /\ Len(self.times[k]) = self.nummeas_lst[k]
            /\ Len(self.lengths[k]) = self.nummeas_lst[k]
            /\ Len(self.state_vector_distances[k]) = self.nummeas_lst[k]
            /\ Len(self.velocities[k]) = self.nummeas_lst[k]
            /\ \A i \in 1..self.nummeas_lst[k] :
                   /\ self.times[k][i] = traj.dtime[k][i] + self.tref_offsets[k]
                   /\ self.lengths[k][i] = vectMag(VSub(geom[k][1], geom[k][i]))
                   /\ self.state_vector_distances[k][i]
                          = vectMag(VSub(self.l_beg.beg_cpa, geom[k][i]))
                   /\ self.velocities[k][i].num = self.lengths[k][i] - PrevLength(k, i)

\* a station of two measurements with a zero time delta between them that moved
C2_Witness ==
    /\ KinematicsSet
    /\ \E k \in Stations :
           /\ self.nummeas_lst[k] = 2
           /\ self.times[k][1] = self.times[k][2]
           /\ self.lengths[k][2] # 0
           /\ Len(self.velocities[k]) = 2

\* C3: for every station with a measurement the along-track length of its first
\* measurement is 0, and every along-track length is non-negative.
C3_LengthFromOwnFirstPoint ==
    KinematicsSet =>
        \A k \in Stations :
            /\ Len(self.lengths[k]) >= 1 => self.lengths[k][1] = 0
            /\ \A i \in 1..Len(self.lengths[k]) : self.lengths[k][i] >= 0

\* a station whose first point is not the begin point and whose last point is
\* away from its first
C3_Witness ==
    /\ KinematicsSet
    /\ \E k \in Stations :
           /\ Len(self.lengths[k]) = 2
           /\ self.lengths[k][1] = 0
           /\ self.lengths[k][2] > 0
           /\ self.state_vector_distances[k][1] > 0

AllCpa == Flatten(geom)

\* the first CPA point, in station-then-measurement order, of greatest geocentric
\* distance
FirstHighest ==
    CHOOSE j \in 1..Len(AllCpa) :
        /\ \A m \in 1..Len(AllCpa) : vectMag(AllCpa[m]) <= vectMag(AllCpa[j])
        /\ \A m \in 1..(j - 1) : vectMag(AllCpa[m]) < vectMag(AllCpa[j])

\* C4: the begin point is a computed CPA point, none lies farther from the
\* Earth's centre, it is the first of those farthest; so every state-vector
\* distance is non-negative and that of the begin point itself is 0.
C4_BeginIsFirstHighest ==
    (KinematicsSet /\ Len(AllCpa) > 0) =>
        /\ self.l_beg.set
        /\ self.l_beg.beg_cpa = AllCpa[FirstHighest]
        /\ \A m \in 1..Len(AllCpa) : vectMag(AllCpa[m]) <= vectMag(self.l_beg.beg_cpa)
        /\ \A k \in Stations : \A i \in 1..Len(self.state_vector_distances[k]) :
               /\ self.state_vector_distances[k][i] >= 0
               /\ geom[k][i] = self.l_beg.beg_cpa => self.state_vector_distances[k][i] = 0

\* two different CPA points share the greatest distance, after a lower one, and
\* the later of the two is not the begin point
C4_Witness ==
    /\ KinematicsSet
    /\ Len(AllCpa) >= 3
    /\ vectMag(AllCpa[1]) < vectMag(self.l_beg.beg_cpa)
    /\ \E m \in 1..Len(AllCpa) :
           /\ AllCpa[m] # self.l_beg.beg_cpa
           /\ vectMag(AllCpa[m]) = vectMag(self.l_beg.beg_cpa)
           /\ m > FirstHighest

\* C5: velocity[i] = (length[i] - length[i-1]) / (t[i] - t[i-1]), with length[-1]
\* and t[-1] taken as 0 for the first sample, whose velocity is therefore 0; t is
\* the measurement time plus the station's timing offset (a zero time delta
\* being the eps of C1).
C5_VelocityIsDifferenceQuotient ==
    KinematicsSet =>
        \A k \in Stations : \A i \in 1..Len(self.velocities[k]) :
            LET dt == (traj.dtime[k][i] + self.tref_offsets[k])
                      - (IF i = 1 THEN 0 ELSE traj.dtime[k][i - 1] + self.tref_offsets[k])
            IN  /\ self.velocities[k][i]
                       = [kind |-> "num",
                          num |-> self.lengths[k][i] - PrevLength(k, i),
                          den |-> IF dt = 0 THEN MachineEps ELSE TVal(dt, 0)]
                /\ i = 1 => self.velocities[k][i].num = 0

\* a station with a non-zero offset, a first time other than 0 and a later point
\* that moved over a non-zero time delta
C5_Witness ==
    /\ KinematicsSet
    /\ \E k \in Stations :
           /\ self.tref_offsets[k] # 0
           /\ Len(self.velocities[k]) = 2
           /\ self.velocities[k][1] = [kind |-> "num", num |-> 0, den |-> TVal(-1, 0)]
           /\ self.velocities[k][2].num # 0
           /\ self.velocities[k][2].den = TVal(1, 0)

\* the line fitted to the earliest half of the time-sorted pool of the stations S
ExpectedFit(S) ==
    CurveFitLine(FirstHalf(SortByTime(Pooled(self.times, self.state_vector_distances, S))))

FitBetter(a, b) ==
    /\ a.fin
    /\ \/ ~b.fin
       \/ a.var.num * b.var.den < b.var.num * a.var.den

\* C6: in first-half-average mode with N >= 3 stations candidate i pools all
\* stations but station i, no candidate pools all N, and a loop that completes
\* has evaluated exactly N candidates and set vbegin from the fit of the pool
\* without the station of the best one.
C6_LeaveOneOut ==
    (self.fha_velocity /\ self.maxcameras >= 3 /\ KinematicsSet) =>
        /\ \A i \in 1..Len(self.l_candidates) :
               /\ self.l_candidates[i] = Stations \ {i}
               /\ self.l_candidates[i] # Stations
        /\ self.raised = "none" =>
               /\ Len(self.l_candidates) = self.maxcameras
               /\ self.l_best_index \in Stations
               /\ LET fit == ExpectedFit(Stations \ {self.l_best_index})
                  IN  /\ fit.fin
                      /\ self.vbegin = Rat(fit.slope.num, fit.slope.den * 1000)

\* a completed run on 3 stations that kept the candidate without station 2
C6_Witness ==
    /\ self.fha_velocity
    /\ self.maxcameras = 3
    /\ self.stage = "done"
    /\ Len(self.l_candidates) = 3
    /\ self.l_best_index = 2
    /\ self.vbegin # self.l_solver_vbegin

BiasedStation(j) ==
    /\ self.fha_velocity
    /\ self.maxcameras = 3
    /\ self.stage = "done"
    /\ \E b \in FhaBiases \ {0} : geom[j] = FhaCpaList(traj.dtime[j], b, 0)
    /\ \A k \in Stations \ {j} : geom[k] = FhaCpaList(traj.dtime[k], 0, 0)

C9_OneStationNoFit ==
    (self.fha_velocity /\ self.maxcameras = 1 /\ KinematicsSet) =>
        /\ self.l_best_index = 0
        /\ self.vbegin = self.l_solver_vbegin

\* C10 as stated: a station with fewer than 2 points ends no run with an error
\* and gets no velocity, lag or average velocity value.
C10_ShortStationUnavailable ==
    KinematicsSet =>
        \A k \in Stations : self.nummeas_lst[k] < 2 =>
            /\ self.raised = "none"
            /\ self.velocities[k] = <<>>
            /\ k <= Len(self.lags) => self.lags[k] = <<>>
            /\ k <= Len(self.l_v_avg_list) => self.l_v_avg_list[k].kind = "unavailable"

\* C11 as stated: when MeteorTrajectory returns a failure status, run() ends with
\* the failure raised and computes no kinematics, no orbit and saves nothing.
C11_SolverFailureSurfaced ==
    (traj.solve_calls > 0 /\ traj.status # 0) =>
        /\ self.raised # "none"
        /\ ~KinematicsSet
        /\ self.orbit = <<>>
        /\ self.l_saved = <<>>

\* calcVelocity has been entered
CalcVelocityCalled == \E i \in 1..Len(self.l_trace) : self.l_trace[i] = "calcVelocity"

\* C12: with a meastype other than 1, 2, 3, 4 calcVelocity raises at the first
\* station (the names azim_data and elev_data were never bound): no station's
\* azimuth and elevation are produced, under no convention, and no kinematics
\* follow.
C12_UnknownConventionFails ==
    (CalcVelocityCalled /\ self.meastype \notin {1, 2, 3, 4}) =>
        /\ self.raised = "UnboundLocalError"
        /\ self.l_azim_elev = <<>>
        /\ self.l_rad_cpa = <<>>
        /\ ~KinematicsSet
        /\ self.stage = "read"

\* two stations under the unknown meastype 5, and the run ended in calcVelocity
C12_Witness ==
    /\ self.meastype = 5
    /\ self.maxcameras = 2
    /\ CalcVelocityCalled
    /\ self.raised = "UnboundLocalError"
    /\ self.times # <<>>

\* some measurement's line of sight is parallel to the radiant line
SomeParallel == \E k \in 1..Len(geom) : \E i \in 1..Len(geom[k]) : geom[k][i] = Parallel

\* C13: when the line of sight of a measurement is parallel to the radiant line
\* its projection raises DegenerateGeometry, and calcVelocity stores no CPA
\* point and no kinematics.
C13_ParallelRaises ==
    (CalcVelocityCalled /\ self.meastype \in {1, 2, 3, 4} /\ SomeParallel) =>
        /\ self.raised = "DegenerateGeometry"
        /\ self.l_rad_cpa = <<>>
        /\ ~self.l_beg.set
        /\ ~KinematicsSet
        /\ self.stage = "read"

\* the first station projects, the second one's line of sight is parallel
C13_Witness ==
    /\ self.maxcameras = 2
    /\ CalcVelocityCalled
    /\ geom = <<<<(<<3, 0, 4>>)>>, <<Parallel>>>>
    /\ self.raised = "DegenerateGeometry"

\* C14 as stated: over any sequence of run() calls on one object the solver is
\* invoked at most once.
C14_SolverCalledAtMostOnce == traj.solve_calls <= 1

\* the fields run() reads, and the positions of the trace where f is read
ReadFields == {ReadOrder[i] : i \in 1..Len(ReadOrder)}

ReadsOf(f) == {j \in 1..Len(self.l_trace) : self.l_trace[j] = f}

\* the output fields that run() never reads
UnreadOutputFields ==
    {"ra_radiant_IPW", "dec_radiant_IPW", "ra_radiant_LMS", "dec_radiant_LMS",
     "dtime_ref", "dtime_tzero", "dtime_beg", "dtime_end"}

\* the last call of MeteorTrajectory before position i of the trace
LastSolveBefore(i) ==
    CHOOSE m \in 1..i : /\ self.l_trace[m] = "MeteorTrajectory"
                        /\ \A n \in (m + 1)..i : self.l_trace[n] # "MeteorTrajectory"

\* C15 as stated: once the solver has been called, every output field of the
\* structure has been read exactly once, after MeteorTrajectory and before
\* FreeTrajectoryStructure.
C15_EveryOutputFieldReadOnce ==
    traj.solve_calls > 0 =>
        \A f \in OutputFields :
            /\ Cardinality(ReadsOf(f)) = 1
            /\ \A j \in ReadsOf(f) :
                   /\ \E m \in 1..(j - 1) : self.l_trace[m] = "MeteorTrajectory"
                   /\ \E n \in (j + 1)..Len(self.l_trace) :
                          self.l_trace[n] = "FreeTrajectoryStructure"

\* C15 as amended: every read of the structure follows a call of
\* MeteorTrajectory and none follows FreeTrajectoryStructure; a read-out that
\* reaches FreeTrajectoryStructure has read, since the call of MeteorTrajectory
\* before it, each field of ReadOrder exactly once and nothing else; a read-out
\* that raises stops after meashat_ECI and frees nothing; and the output fields
\* of UnreadOutputFields are never read.
C15_ReadOnceBeforeFree ==
    /\ OutputFields \ ReadFields = UnreadOutputFields
    /\ \A f \in UnreadOutputFields : ReadsOf(f) = {}
    /\ \A f \in ReadFields : \A j \in ReadsOf(f) :
           /\ \E m \in 1..(j - 1) : self.l_trace[m] = "MeteorTrajectory"
           /\ \A n \in 1..(j - 1) : self.l_trace[n] # "FreeTrajectoryStructure"
    /\ \A f \in ReadFields : Cardinality(ReadsOf(f)) <= traj.solve_calls
    /\ \A i \in ReadsOf("FreeTrajectoryStructure") :
           /\ \A f \in ReadFields :
                  Cardinality(ReadsOf(f) \cap (LastSolveBefore(i)..i)) = 1
           /\ \A j \in (LastSolveBefore(i) + 1)..(i - 1) : self.l_trace[j] \in ReadFields
    /\ (self.raised = "IndexError" /\ self.stage = "constructed") =>
           /\ ReadsOf("FreeTrajectoryStructure") = {}
           /\ ~traj.freed
           /\ self.l_trace[Len(self.l_trace)] = "meashat_ECI"

\* a read-out that raised, then, the missing station filled in, a run() that
\* read and freed the structure
C15_Witness ==
    /\ traj.solve_calls = 2
    /\ self.stage = "done"
    /\ Cardinality(ReadsOf("meashat_ECI")) = 2
    /\ Cardinality(ReadsOf("vbegin")) = 1
    /\ Cardinality(ReadsOf("FreeTrajectoryStructure")) = 1

\* the stages of run() in the order of their calls, as far as the trace has them
StageNames == {"calcVelocity", "calcLag", "calcAverages", "calcOrbit", "savePickle"}

StageEvents == SelectSeq(self.l_trace, LAMBDA e : e \in StageNames)

StageOrder ==
    IF self.save_results
    THEN <<"calcVelocity", "calcLag", "calcAverages", "calcOrbit", "savePickle">>
    ELSE <<"calcVelocity", "calcLag", "calcAverages", "calcOrbit">>

Times1000(v) == Rat(v.num * 1000, v.den)

\* C16: run() calls calcVelocity, calcLag, calcAverages, the orbit computation
\* and the saving in this order, after the read-out is complete, each on the
\* complete output of the one before; in first-half-average mode the lag and the
\* orbit are computed with the begin velocity of the line fit, not the solver's.
C16_StagesInOrder ==
    self.l_before = <<>> =>
        /\ Len(StageEvents) <= Len(StageOrder)
        /\ StageEvents = SubSeq(StageOrder, 1, Len(StageEvents))
        /\ \A j \in 1..Len(self.l_trace) : self.l_trace[j] \in StageNames =>
               \E n \in 1..(j - 1) : self.l_trace[n] = "FreeTrajectoryStructure"
        /\ Len(StageEvents) >= 2 =>
               /\ Len(self.velocities) = self.maxcameras
               /\ self.l_beg.set
               /\ self.l_lag_v_init = <<Times1000(self.vbegin)>>
               /\ (self.fha_velocity =>
                      self.vbegin = VbeginFromSlope(
                          ExpectedFit(self.l_candidates[self.l_best_index]).slope))
        /\ Len(StageEvents) >= 3 => Len(self.lags) = self.maxcameras
        /\ Len(StageEvents) >= 4 =>
               /\ Len(self.l_v_avg_list) = self.maxcameras
               /\ self.orbit = <<[v_init |-> Times1000(self.vbegin),
                                  v_avg_list |-> self.l_v_avg_list]>>
        /\ self.l_saved # <<>> => (self.orbit # <<>> /\ self.stage = "done")
        /\ self.stage = "done" => StageEvents = StageOrder

\* a completed and saved run in first-half-average mode on two stations whose
\* lag and orbit used a begin velocity other than the solver's
C16_Witness ==
    /\ self.l_before = <<>>
    /\ self.fha_velocity
    /\ self.maxcameras = 2
    /\ self.stage = "done"
    /\ self.l_saved # <<>>
    /\ self.l_lag_v_init # <<Times1000(self.l_solver_vbegin)>>
    /\ self.orbit[1].v_init = self.l_lag_v_init[1]

\* C17 as stated: once run() has read the solver outputs, calcVelocity, calcLag
\* and calcAverages leave the begin velocity of the solution as it was read.
C17_SolutionNeverRewritten ==
    self.stage # "constructed" => self.vbegin = self.l_solver_vbegin

\* C18 as stated: calcVelocity followed by calcLag, called again on a solved
\* object, leave times, lengths, state-vector distances, velocities, lags,
\* vbegin and vavg as they were.
C18_RecomputeIdempotent ==
    (self.l_before # <<>> /\ self.raised = "none") => Derived(self) = self.l_before[1]

\* C19: after the leave-one-out pooling, sorting and halving of calcVelocity and
\* after calcAverages, every station's times, lengths, state-vector distances,
\* velocities and lags are the per-station values, element for element in the
\* order of the measurements.
C19_SeriesUntouched ==
    KinematicsSet =>
        /\ \A k \in Stations :
               /\ self.times[k] = [i \in 1..self.nummeas_lst[k] |->
                                      traj.dtime[k][i] + self.tref_offsets[k]]
               /\ self.lengths[k] = [i \in 1..self.nummeas_lst[k] |->
                                        vectMag(VSub(geom[k][1], geom[k][i]))]
               /\ self.state_vector_distances[k]
                      = [i \in 1..self.nummeas_lst[k] |->
                            vectMag(VSub(self.l_beg.beg_cpa, geom[k][i]))]
               /\ self.velocities[k] = Velocity(self.lengths[k], self.times[k])
        /\ \A k \in 1..Len(self.lags) :
               self.lags[k] = LagOf(self.times[k], self.lengths[k], self.l_lag_v_init[1])

\* a completed run in first-half-average mode on two stations, the first with
\* times out of order that interleave with the second's in the sorted pool
C19_Witness ==
    /\ self.fha_velocity
    /\ self.maxcameras = 2
    /\ self.stage = "done"
    /\ self.l_best_index = 1
    /\ self.times = <<(<<3, 4, 5, 0, 1, 2>>), (<<1, 0>>)>>
    /\ Len(self.lags) = 2
    /\ Len(self.l_v_avg_list) = 2

\* the real number a mod 2*pi, in [0, 2*pi), for -2*pi <= a < 4*pi
ExactMod(a) ==
    IF AngSign(a) < 0 THEN Ang(a.q + 4, a.f)
    ELSE IF AngSign(Ang(a.q - 4, a.f)) >= 0 THEN Ang(a.q - 4, a.f)
    ELSE a

\* the table of the conventions in real arithmetic
TableAzim(meastype, meas1) ==
    IF meastype = 2 THEN meas1
    ELSE IF meastype = 3 THEN ExactMod(Ang(meas1.q + 2, meas1.f))
    ELSE ExactMod(Ang(1 - meas1.q, -meas1.f))

TableElev(meastype, meas2) ==
    IF meastype = 2 THEN meas2 ELSE Ang(1 - meas2.q, -meas2.f)

\* a and b are the same direction to within 2*2^-52 (half the spacing of float64
\* just below 2*pi)
NearOnCircle(a, b) ==
    /\ a.q - b.q \in {-4, 0, 4}
    /\ Abs(a.f - b.f) <= 2

\* the measurements the conventions of the table were applied to
Converted ==
    IF self.meastype \in {2, 3, 4}
    THEN UNION {{<<k, i>> : i \in 1..Len(self.l_azim_elev[k])} :
                   k \in 1..Len(self.l_azim_elev)}
    ELSE {}

\* C20 as stated: azimuth and elevation are those of the table (to float64
\* rounding), and for meastype 3 and 4 the azimuth lies in [0, 2*pi).
C20_AzimuthBelowTwoPi ==
    \A m \in Converted :
        LET out == self.l_azim_elev[m[1]][m[2]]
        IN  /\ NearOnCircle(out.azim, TableAzim(self.meastype, self.meas1[m[1]][m[2]]))
            /\ out.elev = FRound(TableElev(self.meastype, self.meas2[m[1]][m[2]]))
            /\ self.meastype \in {3, 4} =>
                   /\ AngSign(out.azim) >= 0
                   /\ AngSign(Ang(out.azim.q - 4, out.azim.f)) < 0

\* C20 as amended: meastype 2 leaves both angles as they are; for meastype 3 and
\* 4 the azimuth is the table's value to within float64 rounding and lies in
\* [0, 2*pi], being 2*pi itself only when the table's value is at most 2*2^-52
\* below 2*pi; the elevation is the float64 nearest to pi/2 - meas2; and
\* (meas1 = 0, meas2 = pi/2) under meastype 3 gives azimuth pi and elevation 0.
C20_AzimuthUpToTwoPi ==
    \A m \in Converted :
        LET out   == self.l_azim_elev[m[1]][m[2]]
            meas1 == self.meas1[m[1]][m[2]]
            meas2 == self.meas2[m[1]][m[2]]
        IN  /\ self.meastype = 2 => (out.azim = meas1 /\ out.elev = meas2)
            /\ NearOnCircle(out.azim, TableAzim(self.meastype, meas1))
            /\ out.elev = FRound(TableElev(self.meastype, meas2))
            /\ self.meastype \in {3, 4} =>
                   /\ AngSign(out.azim) >= 0
                   /\ AngSign(Ang(out.azim.q - 4, out.azim.f)) <= 0
                   /\ out.azim = TwoPi =>
                          /\ TableAzim(self.meastype, meas1).q = 4
                          /\ TableAzim(self.meastype, meas1).f \in {-2, -1}
            /\ (self.meastype = 3 /\ meas1 = Ang(0, 0) /\ meas2 = HalfPi) =>
                   (out.azim = Pi /\ out.elev = Ang(0, 0))

\* under meastype 4 an azimuth one float above pi/2 comes out as 2*pi, and the
\* second station's azimuth of 3*pi/2 as pi
C20_Witness ==
    /\ self.meastype = 4
    /\ Len(self.l_azim_elev) = 2
    /\ self.meas1[1][1] = Ang(1, 1)
    /\ self.l_azim_elev[1][1].azim = TwoPi
    /\ self.meas1[2][1] = Ang(3, 0)
    /\ self.l_azim_elev[2][1].azim = Pi

(***************************************************************************)
(* Stations of many points: the lag fit and the averages.                  *)
(***************************************************************************)
MaxLagPoints == 17

LagPointCounts == {1, 4, 5, 15, 16, MaxLagPoints}

LagTimeSeqs == {[i \in 1..n |-> i - 1] : n \in LagPointCounts}

InitLag ==
    /\ \E maxcameras \in CameraCounts, vm \in VelModels :
           self = NewObject(maxcameras, vm[1], vm[2], DefaultMeastype, TRUE)
    /\ traj = NewStructure
    /\ geom = <<>>
    /\ files = NoFiles
    /\ milig = NoInput
    /\ loaded = NotLoaded

LagInfill ==
    /\ CanInfill
    /\ \E time_data \in LagTimeSeqs :
           infillTrajectory(DefaultAngles(time_data), DefaultAngles(time_data), time_data)

LagSolve ==
    /\ CanRun
    /\ \E wobble \in [1..Len(traj.dtime) -> FhaWobbles] :
           run([tref_offsets |-> [k \in 1..self.maxcameras |-> 0], vbegin |-> Rat(2, 1),
                status |-> 0],
               FhaCpa(traj.dtime, [k \in 1..Len(traj.dtime) |-> 0], wobble))

NextLag == LagInfill \/ LagSolve

SpecLag == InitLag /\ [][NextLag]_vars

\* the stations whose lag fit has been made
FittedStations == 1..Len(self.l_quart_time)

Min(a, b) == IF a < b THEN a ELSE b

Max(a, b) == IF a > b THEN a ELSE b

\* C21 (as stated): the intercept of every station is fitted on the first
\* max(4, floor(0.25*n)) of its n points, capped at n.
C21_QuarterAtLeastFour ==
    \A k \in FittedStations :
        Len(self.l_quart_time[k]) = Min(Len(self.times[k]), Max(4, Len(self.times[k]) \div 4))

\* C21 (amended): the intercept of every station is fitted on a leading run of
\* its points; on all n of them when n < 16, and on floor(0.25*n) of them, which
\* is then at least 4, when n >= 16.
C21_QuarterOrAll ==
    \A k \in FittedStations :
        LET n == Len(self.times[k])
            used == Len(self.l_quart_time[k])
        IN  /\ self.l_quart_time[k] = SubSeq(self.times[k], 1, used)
            /\ n < 16 => used = n
            /\ n >= 16 => /\ 4 * used <= n
                          /\ n < 4 * used + 4
                          /\ used >= 4

\* a station of 16 or more points fitted on its first quarter, next to a station
\* of 5 to 15 points fitted on all of them
C21_Witness ==
    /\ self.stage = "done"
    /\ \E k \in FittedStations :
           Len(self.times[k]) >= 16 /\ Len(self.l_quart_time[k]) = Len(self.times[k]) \div 4
    /\ \E k \in FittedStations :
           Len(self.times[k]) \in 5..15 /\ Len(self.l_quart_time[k]) = Len(self.times[k])

\* the Julian dates of all measurements of all stations in one list
PooledJd == Flatten([k \in 1..Len(self.times) |-> JdData(self.jdt_ref, self.times[k])])

\* C22: the average epoch calcAverages returns is the mean of the Julian dates
\* of all measurements of all stations, every measurement weighted equally.
C22_EpochIsPooledMean ==
    self.l_jd_avg # <<>> => self.l_jd_avg[1] = Mean(PooledJd)

(***************************************************************************)
(* Several objects, one after the other, saving into the same directory.   *)
(***************************************************************************)
MaxObjects == 2

\* the constructor argument velmodel, as the string str(velmodel)
VelModelArgs ==
    {<<"0">>, <<"0", "f", "h", "a">>, <<"1">>, <<"1", "f", "h", "a">>, <<"2">>, <<"3">>}

FilesEpochs == {JdtRef, JdtRef + 1}

FilesTimeSeqs == {<<0>>, <<0, 1, 2, 3, 4, 5>>}

\* GuralTrajectory(maxcameras, jdt_ref, velmodel), the l_object_no-th of the caller
Construct(maxcameras, jdt_ref, velmodel, l_object_no) ==
    LET parsed == ParseVelModel(velmodel)
    IN  [NewObject(maxcameras, parsed.velmodel, parsed.fha_velocity, DefaultMeastype, TRUE)
            EXCEPT !.jdt_ref = jdt_ref, !.file_name = Stamp(jdt_ref),
                   !.l_velmodel_arg = velmodel, !.l_object_no = l_object_no,
                   !.raised = IF parsed.raised THEN "ValueError" ELSE "none"]

InitFiles ==
    /\ \E jdt_ref \in FilesEpochs, velmodel \in VelModelArgs :
           self = Construct(1, jdt_ref, velmodel, 1)
    /\ traj = NewStructure
    /\ geom = <<>>
    /\ files = NoFiles
    /\ milig = NoInput
    /\ loaded = NotLoaded

FilesInfill ==
    /\ CanInfill
    /\ \E time_data \in FilesTimeSeqs :
           infillTrajectory(DefaultAngles(time_data), DefaultAngles(time_data), time_data)

FilesSolve ==
    /\ CanRun
    /\ Len(self.nummeas_lst) = self.maxcameras
    /\ \E wobble \in [1..Len(traj.dtime) -> FhaWobbles] :
           run([tref_offsets |-> [k \in 1..self.maxcameras |-> 0], vbegin |-> Rat(2, 1),
                status |-> 0],
               FhaCpa(traj.dtime, [k \in 1..Len(traj.dtime) |-> 0], wobble))

\* the caller builds its next object once run() has returned or raised
FilesConstruct ==
    /\ self.stage = "done" \/ self.raised # "none"
    /\ self.l_object_no < MaxObjects
    /\ \E jdt_ref \in FilesEpochs, velmodel \in VelModelArgs :
           self' = Construct(1, jdt_ref, velmodel, self.l_object_no + 1)
    /\ traj' = NewStructure
    /\ geom' = <<>>
    /\ UNCHANGED <<files, milig, loaded>>

NextFiles == FilesInfill \/ FilesSolve \/ FilesConstruct

SpecFiles == InitFiles /\ [][NextFiles]_vars

\* every result file lies in the output directory of the object pickled in it,
\* under that object's epoch stamp and the constructor's velocity-model string
FilesKeyed ==
    \A n \in DOMAIN files :
        /\ n.dir = files[n].output_dir
        /\ n.name.stamp = Stamp(files[n].jdt_ref)
        /\ n.name.rest = <<"_gural">> \o files[n].l_velmodel_arg \o <<"_trajectory.pickle">>

\* a step leaves every result file in place, with a snapshot of the same epoch
\* and velocity-model string
FilesKept ==
    \A n \in DOMAIN files :
        /\ n \in DOMAIN files'
        /\ files'[n].jdt_ref = files[n].jdt_ref
        /\ files'[n].l_velmodel_arg = files[n].l_velmodel_arg

\* C25: the result file run() writes is named after the reference epoch and the
\* velocity-model identifier given to the constructor (0, 0fha, 1, 1fha, 2, 3),
\* so a run never replaces the snapshot of a run with another identifier or epoch.
C25_KeyedByEpochAndModel == [](FilesKeyed) /\ [][FilesKept]_vars

\* the snapshots of a '0' run and of a '0fha' run of the same epoch, side by side
C25_Witness ==
    \E n1 \in DOMAIN files, n2 \in DOMAIN files :
        /\ n1.dir = n2.dir
        /\ n1.name.stamp = n2.name.stamp
        /\ files[n1].l_velmodel_arg = <<"0">>
        /\ files[n2].l_velmodel_arg = <<"0", "f", "h", "a">>

\* the projections of the stations that have measurements
NonEmptyGeom == SelectSeq(geom, LAMBDA rad_cpa_list : rad_cpa_list # <<>>)

MaxLines == 4

HeaderLine(station_id, c3_13, c13_23, c23_28) ==
    [kind |-> "header", chars |-> <<>>, station_id |-> station_id,
     c3_13 |-> c3_13, c13_23 |-> c13_23, c23_28 |-> c23_28,
     c0_9 |-> 0, c9_17 |-> 0, c17_20 |-> 0, c20_23 |-> 0, c23_31 |-> 0]

PickLine(c0_9, c9_17, c17_20, c20_23, c23_31) ==
    [kind |-> "pick", chars |-> <<>>, station_id |-> "",
     c3_13 |-> 0, c13_23 |-> 0, c23_28 |-> 0,
     c0_9 |-> c0_9, c9_17 |-> c9_17, c17_20 |-> c17_20, c20_23 |-> c20_23,
     c23_31 |-> c23_31]

TextLine(chars) ==
    [kind |-> "text", chars |-> chars, station_id |-> "",
     c3_13 |-> 0, c13_23 |-> 0, c23_28 |-> 0,
     c0_9 |-> 0, c9_17 |-> 0, c17_20 |-> 0, c20_23 |-> 0, c23_31 |-> 0]

\* the lines an input file is made of: a header at latitude 0, longitude 90; a
\* pick, a bad pick and a last pick; '-1' with the line endings \n, \r\n and
\* none (the end of the file); '-1' followed by a blank
MiligLines ==
    {HeaderLine("1", 0, 90, 1),
     PickLine(180, 90, 0, 0, 0), PickLine(180, 90, 0, 1, 0), PickLine(180, 90, 9, 0, 0),
     TextLine(<<"-", "1", "\n">>), TextLine(<<"-", "1", "\r", "\n">>),
     TextLine(<<"-", "1">>), TextLine(<<"-", "1", " ", "\n">>)}

MiligFiles == SeqsUpTo(MiligLines, MaxLines)

\* np.radians(float(field)) of a whole number of right angles
Radians(deg) == Ang(deg \div 90, 0)

\* StationData.__init__(self, station_id, lon, lat, height); l_line and
\* l_pick_lines keep the numbers of the lines the station was read from
StationData(station_id, lon, lat, height) ==
    [station_id |-> station_id, lon |-> lon, lat |-> lat, height |-> height,
     time_data |-> <<>>, azim_data |-> <<>>, zangle_data |-> <<>>, ignore_picks |-> <<>>,
     l_line |-> 0, l_pick_lines |-> <<>>]

\* (C24's mutant: only the line feed is taken off the line)
IsTerminatorKeepingCR(line) ==
    line.kind = "text" /\ Removed(line.chars, <<"\n">>) = <<"-", "1">>

\* line.replace('\n', '').replace('\r', '') == '-1'
IsTerminator(line) ==
    line.kind = "text" /\ Removed(Removed(line.chars, <<"\n">>), <<"\r">>) = <<"-", "1">>

\* (C27's mutant: the picks go to the first station of the list)
StatIndFirst(stations) == 1

\* stat_ind = len(stations) - 1 (stations are numbered from 1 here)
StatInd(stations) == Len(stations)

\* if last_pick == 9: new_station = True
IsLastPick(last_pick) == last_pick = 9

\* the file opened, its first line read: nothing of the body consumed
OpenInput(lines) ==
    [lines |-> lines, jdt_ref |-> JdtRef, pos |-> 0, stations |-> <<>>, stat_ind |-> 0,
     new_station |-> TRUE, status |-> "reading", solver |-> <<>>]

\* the station header branch of the loop body, on line i
ReadStation(m, i) ==
    LET line == m.lines[i]
        lat == Radians(line.c3_13)
        lon == Radians(line.c13_23)
        height == line.c23_28 * 1000
        station == [StationData(line.station_id, lat, lon, height) EXCEPT !.l_line = i]
    IN  [m EXCEPT !.stations = Append(@, station),
                  !.stat_ind = StatInd(Append(m.stations, station)),
                  !.new_station = FALSE,
                  !.pos = i]

\* the pick branch of the loop body, on line i
ReadPick(m, i) ==
    LET line == m.lines[i]
    IN  [m EXCEPT !.new_station = IsLastPick(line.c17_20),
                  !.stations[m.stat_ind].time_data = Append(@, line.c23_31),
                  !.stations[m.stat_ind].azim_data = Append(@, Radians(line.c0_9)),
                  !.stations[m.stat_ind].zangle_data = Append(@, Radians(line.c9_17)),
                  !.stations[m.stat_ind].ignore_picks = Append(@, line.c20_23),
                  !.stations[m.stat_ind].l_pick_lines = Append(@, i),
                  !.pos = i]

\* one pass of "for line in f" on line pos + 1: the break on '-1', a station
\* header, or a pick; a line that does not parse ends the call with ValueError
ReadLine(m) ==
    LET i == m.pos + 1
    IN  IF IsTerminator(m.lines[i]) THEN [m EXCEPT !.status = "returned"]
        ELSE IF m.new_station
        THEN IF m.lines[i].kind = "header" THEN ReadStation(m, i)
             ELSE [m EXCEPT !.status = "ValueError"]
        ELSE IF m.lines[i].kind = "pick" THEN ReadPick(m, i)
             ELSE [m EXCEPT !.status = "ValueError"]

\* the values of the argument solver: 'original', 'gural0', 'gural1', 'gural'
\* and a name that is no solver's
Original == <<"o", "r", "i", "g", "i", "n", "a", "l">>

GuralChars == <<"g", "u", "r", "a", "l">>

MiligSolvers ==
    {Original, GuralChars \o <<"0">>, GuralChars \o <<"1">>, GuralChars,
     <<"m", "i", "l", "i", "g">>}

\* the directory of the input file, which receives the results
MiligDirPath == "input"

\* solver.startswith(prefix)
StartsWith(s, prefix) == Len(s) >= Len(prefix) /\ SubSeq(s, 1, Len(prefix)) = prefix

\* try: velmodel = int(solver[-1]) except: velmodel = 3
SolverVelModel(solver) ==
    IF IntRaises(<<solver[Len(solver)]>>) THEN 3 ELSE IntOfDigits(<<solver[Len(solver)]>>)

\* no object built yet
NoObject == <<>>

\* wmpl.Trajectory.Trajectory.Trajectory(jdt_ref, output_dir=dir_path, meastype=3)
\* after infillTrajectory(azim_data, zangle_data, time_data, lat, lon, height,
\* station_id=..., excluded_time=None, ignore_list=ignore_picks) for every
\* station: the observations with the arguments as they were passed
TrajectoryObject(m) ==
    [class |-> "Trajectory", jdt_ref |-> m.jdt_ref, output_dir |-> MiligDirPath,
     meastype |-> 3,
     observations |->
        [k \in 1..Len(m.stations) |->
            [meas1 |-> m.stations[k].azim_data,
             meas2 |-> m.stations[k].zangle_data,
             time_data |-> m.stations[k].time_data,
             lat |-> m.stations[k].lat,
             lon |-> m.stations[k].lon,
             ele |-> m.stations[k].height,
             station_id |-> m.stations[k].station_id,
             ignore_list |-> m.stations[k].ignore_picks]]]

\* GuralTrajectory(len(stations), jdt_ref, velmodel=velmodel, meastype=3,
\* verbose=1, output_dir=dir_path), then nummeas_lst after the infills
GuralObject(m, velmodel) ==
    [Construct(Len(m.stations), m.jdt_ref, FormatInt(velmodel), 1)
        EXCEPT !.meastype = 3, !.output_dir = MiligDirPath,
               !.nummeas_lst = [k \in 1..Len(m.stations) |-> Len(m.stations[k].time_data)]]

\* traj.infillTrajectory(np.array(station.azim_data), np.array(
\* station.zangle_data), np.array(station.time_data), station.lat, station.lon,
\* station.height) for the first k stations
RECURSIVE InfillStations(_, _, _)
InfillStations(t, stations, k) ==
    IF k = 0 THEN t
    ELSE InfillTrajectoryStructure(InfillStations(t, stations, k - 1),
                                   stations[k].azim_data, stations[k].zangle_data,
                                   stations[k].time_data, stations[k].lat, stations[k].lon,
                                   stations[k].height)

GuralStructure(m) == InfillStations(NewStructure, m.stations, Len(m.stations))

\* what the solver and the projection return in these runs
MiligSol(m) ==
    [tref_offsets |-> [k \in 1..Len(m.stations) |-> 0], vbegin |-> Rat(2, 1), status |-> 0]

MiligCpa(m) ==
    FhaCpa(GuralStructure(m).dtime, [k \in 1..Len(m.stations) |-> 0],
           [k \in 1..Len(m.stations) |-> 0])

InitMilig ==
    /\ self = NoObject
    /\ traj = NoObject
    /\ geom = <<>>
    /\ files = NoFiles
    /\ \E lines \in MiligFiles : milig = OpenInput(lines)
    /\ loaded = NotLoaded

\* loadMiligInput, one pass of its loop
MiligReadLine ==
    /\ milig.status = "reading"
    /\ milig.pos < Len(milig.lines)
    /\ milig' = ReadLine(milig)
    /\ UNCHANGED <<self, traj, geom, files, loaded>>

\* loadMiligInput at the end of the file: return [jdt_ref, stations]
MiligEndOfFile ==
    /\ milig.status = "reading"
    /\ milig.pos = Len(milig.lines)
    /\ milig' = [milig EXCEPT !.status = "returned"]
    /\ UNCHANGED <<self, traj, geom, files, loaded>>

\* solveTrajectoryMILIG after loadMiligInput has returned, with the original solver
MiligSolveOriginal ==
    /\ milig.status = "returned"
    /\ milig.stations # <<>>
    /\ self' = TrajectoryObject(milig)
    /\ milig' = [milig EXCEPT !.status = "solved", !.solver = Original]
    /\ UNCHANGED <<traj, geom, files, loaded>>

\* ... with a Gural solver: the object, the infills and run()
MiligSolveGural ==
    /\ milig.status = "returned"
    /\ milig.stations # <<>>
    /\ \E solver \in {sv \in MiligSolvers : StartsWith(sv, GuralChars)} :
           /\ self' = RunObject(GuralObject(milig, SolverVelModel(solver)),
                                GuralStructure(milig), MiligSol(milig), MiligCpa(milig))
           /\ traj' = RunStructure(GuralObject(milig, SolverVelModel(solver)),
                                   GuralStructure(milig), MiligSol(milig))
           /\ files' = RunFiles(GuralObject(milig, SolverVelModel(solver)), self', files)
           /\ milig' = [milig EXCEPT !.status = "solved", !.solver = solver]
    /\ geom' = MiligCpa(milig)
    /\ UNCHANGED loaded

\* ... with any other name: no solver is bound to traj, and traj.run() raises
MiligSolveUnbound ==
    /\ milig.status = "returned"
    /\ milig.stations # <<>>
    /\ \E solver \in {sv \in MiligSolvers : sv # Original /\ ~StartsWith(sv, GuralChars)} :
           milig' = [milig EXCEPT !.status = "UnboundLocalError", !.solver = solver]
    /\ UNCHANGED <<self, traj, geom, files, loaded>>

NextMilig ==
    \/ MiligReadLine
    \/ MiligEndOfFile
    \/ MiligSolveOriginal
    \/ MiligSolveGural
    \/ MiligSolveUnbound

SpecMilig == InitMilig /\ [][NextMilig]_vars

\* the stations read so far from the input file
MiligStations == 1..Len(milig.stations)

\* measurement i of station k reaches the solver as a point to fit: the original
\* solver is told which picks to ignore, the Gural structure holds every
\* measurement it was given, with no flag
HandedUsable(k, i) ==
    IF milig.solver = Original
    THEN self.observations[k].ignore_list[i] # 1
    ELSE i \in 1..Len(traj.dtime[k])

\* C23: a pick whose bad-pick marker is 1 stays among the station's stored
\* picks and is never handed to the solver as a usable point, whichever solver
\* solveTrajectoryMILIG was called with.
C23_BadPicksNeverUsable ==
    milig.status = "solved" =>
        \A k \in MiligStations : \A i \in 1..Len(milig.stations[k].ignore_picks) :
            milig.stations[k].ignore_picks[i] = 1 =>
                /\ i \in 1..Len(milig.stations[k].time_data)
                /\ ~HandedUsable(k, i)

\* the line is '-1', whatever its line ending
ExactlyMinusOne(line) ==
    /\ line.kind = "text"
    /\ line.chars \in {<<"-", "1">>, <<"-", "1", "\n">>, <<"-", "1", "\r", "\n">>,
                       <<"-", "1", "\r">>}

\* the number of the first line that is '-1', one past the last line without one
TermIndex ==
    IF \E i \in 1..Len(milig.lines) : ExactlyMinusOne(milig.lines[i])
    THEN CHOOSE i \in 1..Len(milig.lines) :
             /\ ExactlyMinusOne(milig.lines[i])
             /\ \A j \in 1..(i - 1) : ~ExactlyMinusOne(milig.lines[j])
    ELSE Len(milig.lines) + 1

\* the lines that made a station or a measurement
HeaderLinesRead == {milig.stations[k].l_line : k \in MiligStations}

PickLinesRead ==
    UNION {{milig.stations[k].l_pick_lines[j] : j \in 1..Len(milig.stations[k].l_pick_lines)}
               : k \in MiligStations}

\* C24: loadMiligInput stops at the first line that is exactly '-1' (line ending
\* aside): no line at or after it makes a station or a measurement or is even
\* parsed, and when the function returns every line before it has been parsed.
C24_StopsAtTerminator ==
    /\ milig.pos < TermIndex
    /\ \A i \in HeaderLinesRead \cup PickLinesRead : i < TermIndex
    /\ milig.status = "ValueError" => milig.pos + 1 < TermIndex
    /\ milig.status \in {"returned", "solved", "UnboundLocalError"} =>
           HeaderLinesRead \cup PickLinesRead = 1..(TermIndex - 1)

\* a station and its pick read, then '-1' with a carriage return and a line
\* feed, then a station header that was left unread
C24_Witness ==
    /\ milig.status = "returned"
    /\ Len(milig.lines) = 4
    /\ milig.lines[3] = TextLine(<<"-", "1", "\r", "\n">>)
    /\ milig.lines[4].kind = "header"
    /\ Len(milig.stations) = 1
    /\ Len(milig.stations[1].time_data) = 1

\* line i is the first body line or follows a pick whose last-pick marker is 9
RECURSIVE IsHeaderSlot(_, _)
IsHeaderSlot(lines, i) ==
    \/ i = 1
    \/ /\ ~IsHeaderSlot(lines, i - 1)
       /\ lines[i - 1].c17_20 = 9

\* the station created last before line i
LastStationBefore(i) ==
    CHOOSE k \in MiligStations :
        /\ milig.stations[k].l_line < i
        /\ \A k2 \in MiligStations :
               milig.stations[k2].l_line < i =>
                   milig.stations[k2].l_line <= milig.stations[k].l_line

\* C27: after any prefix of body lines, the first line and every line after a
\* pick marked 9 made exactly one station; every other line made one pick of the
\* station created last before it, and of no other; a station's time_data,
\* azim_data, zangle_data and ignore_picks have the same length.
C27_StationBlocks ==
    /\ \A i \in 1..milig.pos :
           IF IsHeaderSlot(milig.lines, i)
           THEN /\ Cardinality({k \in MiligStations : milig.stations[k].l_line = i}) = 1
                /\ i \notin PickLinesRead
           ELSE /\ i \notin HeaderLinesRead
                /\ \A k \in MiligStations :
                       Cardinality({j \in 1..Len(milig.stations[k].l_pick_lines) :
                                        milig.stations[k].l_pick_lines[j] = i})
                           = IF k = LastStationBefore(i) THEN 1 ELSE 0
    /\ Len(milig.stations)
           = Cardinality({i \in 1..milig.pos : IsHeaderSlot(milig.lines, i)})
    /\ milig.status = "reading" /\ milig.pos < Len(milig.lines) =>
           milig.new_station = IsHeaderSlot(milig.lines, milig.pos + 1)
    /\ \A k \in MiligStations :
           LET station == milig.stations[k]
           IN  /\ Len(station.time_data) = Len(station.l_pick_lines)
               /\ Len(station.azim_data) = Len(station.time_data)
               /\ Len(station.zangle_data) = Len(station.time_data)
               /\ Len(station.ignore_picks) = Len(station.time_data)
               /\ \A j \in 1..Len(station.l_pick_lines) :
                      /\ station.time_data[j] = milig.lines[station.l_pick_lines[j]].c23_31
                      /\ station.ignore_picks[j] = milig.lines[station.l_pick_lines[j]].c20_23

\* two station blocks read: a header, its last pick, a header, a pick
C27_Witness ==
    /\ milig.pos = 4
    /\ Len(milig.stations) = 2
    /\ milig.stations[1].l_pick_lines = <<2>>
    /\ milig.stations[2].l_line = 3
    /\ milig.stations[2].l_pick_lines = <<4>>

\* C28: every station returned by loadMiligInput has the header's columns 3-13
\* (in radians) as lat and its columns 13-23 (in radians) as lon, and these are
\* the lat and lon that infillTrajectory receives.
C28_LatLonFromHeader ==
    \A k \in MiligStations :
        LET header == milig.lines[milig.stations[k].l_line]
        IN  /\ milig.stations[k].lat = Radians(header.c3_13)
            /\ milig.stations[k].lon = Radians(header.c13_23)
            /\ milig.status = "solved" /\ milig.solver = Original =>
                   /\ self.observations[k].lat = Radians(header.c3_13)
                   /\ self.observations[k].lon = Radians(header.c13_23)
            /\ milig.status = "solved" /\ milig.solver # Original =>
                   /\ traj.lat[k] = Radians(header.c3_13)
                   /\ traj.lon[k] = Radians(header.c13_23)

(***************************************************************************)
(* GuralTrajectory.savePickle, called by the caller on an object before or *)
(* after run().                                                            *)
(***************************************************************************)
MaxPickles == 2

\* what wmpl.Utils.Pickling.savePickle does: it returns, or mkdirP or open fail
PickleOutcomes == {"ok", "OSError"}

\* the names the caller pickles under
PickleNames == {[stamp |-> 0, rest |-> <<"copy.pickle">>]}

\* the truth value of a backup: None, or a ctypes library or structure
Truthy(backup) == backup # "None"

\* try: backup = self.<attribute>; del self.<attribute>
\* except AttributeError: backup = None
Backup(present, value) == IF present THEN value ELSE "None"

\* the object after self.savePickle(dir_path, file_name): both bindings backed
\* up and deleted, the module's savePickle called, and, when that returned, the
\* bindings whose backups are true put back
SavePickleObject(o, outcome) ==
    IF outcome = "ok"
    THEN [o EXCEPT !.has_traj_lib = Truthy(Backup(o.has_traj_lib, "CDLL")),
                   !.has_traj = Truthy(Backup(o.has_traj, "TrajectoryInfo")),
                   !.l_pickle_calls = @ + 1]
    ELSE [o EXCEPT !.has_traj_lib = FALSE, !.has_traj = FALSE,
                   !.l_pickle_calls = @ + 1, !.raised = outcome]

\* the object as the module's savePickle sees it
Stripped(o) == [o EXCEPT !.has_traj_lib = FALSE, !.has_traj = FALSE]

SavePickleFiles(o, fs, dir_path, file_name, outcome) ==
    IF outcome = "ok" THEN Dump(fs, Stripped(o), dir_path, file_name) ELSE fs

InitPickle ==
    /\ \E maxcameras \in CameraCounts, vm \in VelModels, save_results \in BOOLEAN :
           self = NewObject(maxcameras, vm[1], vm[2], DefaultMeastype, save_results)
    /\ traj = NewStructure
    /\ geom = <<>>
    /\ files = NoFiles
    /\ milig = NoInput
    /\ loaded = NotLoaded

PickleInfill ==
    /\ CanInfill
    /\ \E time_data \in FilesTimeSeqs :
           infillTrajectory(DefaultAngles(time_data), DefaultAngles(time_data), time_data)

PickleSolve ==
    /\ CanRun
    /\ Len(self.nummeas_lst) = self.maxcameras
    /\ run([tref_offsets |-> [k \in 1..self.maxcameras |-> 0], vbegin |-> Rat(2, 1),
            status |-> 0],
           FhaCpa(traj.dtime, [k \in 1..Len(traj.dtime) |-> 0],
                  [k \in 1..Len(traj.dtime) |-> 0]))

\* traj_solve.savePickle(dir_path, file_name)
PickleSave ==
    /\ self.raised = "none"
    /\ self.l_pickle_calls < MaxPickles
    /\ \E file_name \in PickleNames, outcome \in PickleOutcomes :
           /\ self' = SavePickleObject(self, outcome)
           /\ files' = SavePickleFiles(self, files, self.output_dir, file_name, outcome)
    /\ UNCHANGED <<traj, geom, milig, loaded>>

NextPickle == PickleInfill \/ PickleSolve \/ PickleSave

SpecPickle == InitPickle /\ [][NextPickle]_vars

\* the attributes of the object other than traj_lib and traj
OtherAttributes(o) ==
    [o EXCEPT !.has_traj_lib = FALSE, !.has_traj = FALSE, !.l_pickle_calls = 0,
              !.raised = "none"]

\* C29: a call of GuralTrajectory.savePickle, whether the pickling succeeded or
\* raised, leaves traj_lib and traj present exactly when they were present
\* before and every other attribute unchanged; what it pickles when it
\* succeeds is the object without the two.
C29_SavePickleRestores ==
    [][self'.l_pickle_calls = self.l_pickle_calls + 1 =>
          /\ self'.has_traj_lib = self.has_traj_lib
          /\ self'.has_traj = self.has_traj
          /\ OtherAttributes(self') = OtherAttributes(self)
          /\ self'.raised = "none" =>
                 \E n \in DOMAIN files' :
                     /\ ~files'[n].has_traj_lib
                     /\ ~files'[n].has_traj
                     /\ OtherAttributes(files'[n]) = OtherAttributes(self)]_vars

(***************************************************************************)
(* wmpl.Utils.Pickling.loadPickle.  A pickled object is a record of the    *)
(* attributes the function looks at, each a sequence: empty when the       *)
(* object has no such attribute, else holding its value.                   *)
(***************************************************************************)
\* p.gravity_factor = 1.0 and p.v0z = 0.0
DefaultGravityFactor == 1

DefaultV0z == 0

\* values of the attributes in the pickles of the model; an orbit is None or an
\* object with fixMissingParameters, l_fixed telling that it was called
UncertaintyValues == {"A", "B"}

OrbitValues == {[is_none |-> TRUE, l_fixed |-> FALSE], [is_none |-> FALSE, l_fixed |-> FALSE]}

FactorValues == {0, 1, 2}

Optional(S) == {<<>>} \cup {<<v>> : v \in S}

PickledObjects ==
    [uncertainties : Optional(UncertaintyValues),
     uncertanties : Optional(UncertaintyValues),
     orbit : Optional(OrbitValues),
     observations : Optional({"observations"}),
     gravity_factor : Optional(FactorValues),
     v0z : Optional(FactorValues)]

\* hasattr(p, name), name.v being the attribute's entry in the record
HasAttr(entry) == entry # <<>>

\* (C30's mutant: the two copies are made in the other order)
FixUncertaintiesTypoFirst(p) ==
    LET q == IF HasAttr(p.uncertanties) THEN [p EXCEPT !.uncertainties = p.uncertanties]
             ELSE p
    IN  IF HasAttr(q.uncertainties) THEN [q EXCEPT !.uncertanties = q.uncertainties] ELSE q

\* if hasattr(p, "uncertainties"): p.uncertanties = p.uncertainties
\* if hasattr(p, "uncertanties"): p.uncertainties = p.uncertanties
FixUncertainties(p) ==
    LET q == IF HasAttr(p.uncertainties) THEN [p EXCEPT !.uncertanties = p.uncertainties]
             ELSE p
    IN  IF HasAttr(q.uncertanties) THEN [q EXCEPT !.uncertainties = q.uncertanties] ELSE q

\* if p.orbit is not None: p.orbit.fixMissingParameters()
FixOrbit(p) ==
    IF p.orbit[1].is_none THEN p ELSE [p EXCEPT !.orbit = <<[@[1] EXCEPT !.l_fixed = TRUE]>>]

\* if not hasattr(p, 'gravity_factor'): p.gravity_factor = 1.0
FixGravityFactor(p) ==
    IF HasAttr(p.gravity_factor) THEN p
    ELSE [p EXCEPT !.gravity_factor = <<DefaultGravityFactor>>]

\* if not hasattr(p, 'v0z'): p.v0z = 0.0
FixV0z(p) == IF HasAttr(p.v0z) THEN p ELSE [p EXCEPT !.v0z = <<DefaultV0z>>]

\* if hasattr(p, 'orbit') and hasattr(p, 'observations'): ...
FixTrajectory(p) ==
    IF HasAttr(p.orbit) /\ HasAttr(p.observations)
    THEN FixV0z(FixGravityFactor(FixOrbit(p)))
    ELSE p

\* loadPickle(dir_path, file_name): the object unpickled, fixed and returned
loadPickle(fs, dir_path, file_name) ==
    FixTrajectory(FixUncertainties(fs[Path(dir_path, file_name)]))

InitLoad ==
    /\ self = NoObject
    /\ traj = NoObject
    /\ geom = <<>>
    /\ \E p \in PickledObjects, file_name \in PickleNames :
           files = Dump(NoFiles, p, MiligDirPath, file_name)
    /\ milig = NoInput
    /\ loaded = NotLoaded

LoadPickle ==
    /\ loaded = NotLoaded
    /\ \E n \in DOMAIN files :
           loaded' = <<[path |-> n, p |-> loadPickle(files, n.dir, n.name)]>>
    /\ UNCHANGED <<self, traj, geom, files, milig>>

NextLoad == LoadPickle

SpecLoad == InitLoad /\ [][NextLoad]_vars

\* the object as it was pickled, and as loadPickle returned it
Pickled == files[loaded[1].path]

Returned == loaded[1].p

\* C30: after loadPickle an object that had 'uncertainties' or 'uncertanties'
\* has both with one value, that of 'uncertainties' when it had both; the
\* defaults gravity_factor = 1.0 and v0z = 0.0 are added to an object that has
\* 'orbit' and 'observations' and lacks the attribute, and to no other; an
\* existing value is never replaced.
C30_LoadPickleFixes ==
    loaded # NotLoaded =>
        /\ HasAttr(Pickled.uncertainties) \/ HasAttr(Pickled.uncertanties) =>
               /\ HasAttr(Returned.uncertainties)
               /\ Returned.uncertanties = Returned.uncertainties
        /\ HasAttr(Pickled.uncertainties) => Returned.uncertainties = Pickled.uncertainties
        /\ ~HasAttr(Pickled.uncertainties) => Returned.uncertainties = Pickled.uncertanties
        /\ Returned.gravity_factor =
               IF HasAttr(Pickled.gravity_factor) THEN Pickled.gravity_factor
               ELSE IF HasAttr(Pickled.orbit) /\ HasAttr(Pickled.observations)
               THEN <<DefaultGravityFactor>>
               ELSE <<>>
        /\ Returned.v0z =
               IF HasAttr(Pickled.v0z) THEN Pickled.v0z
               ELSE IF HasAttr(Pickled.orbit) /\ HasAttr(Pickled.observations)
               THEN <<DefaultV0z>>
               ELSE <<>>
        /\ Returned.observations = Pickled.observations
        /\ HasAttr(Returned.orbit) = HasAttr(Pickled.orbit)

\* a trajectory pickle with both spellings holding different values, a gravity
\* factor of 0 and no v0z, loaded
C30_Witness ==
    /\ loaded # NotLoaded
    /\ Pickled.uncertainties = <<"A">>
    /\ Pickled.uncertanties = <<"B">>
    /\ HasAttr(Pickled.orbit)
    /\ HasAttr(Pickled.observations)
    /\ Pickled.gravity_factor = <<0>>
    /\ Pickled.v0z = <<>>
    /\ Returned.uncertanties = <<"A">>
    /\ Returned.gravity_factor = <<0>>
    /\ Returned.v0z = <<DefaultV0z>>
====
